---- MODULE Spec2Model ----
(***************************************************************************)
(* A model of the anvil-build dependency graph (anvil/graph.py), the       *)
(* Deferred primitive (anvil/async.py) and the execution pump of           *)
(* BuildContext.execute_async (anvil/context.py).                          *)
(*                                                                         *)
(* Rule paths such as 'm1:a' are modelled by the record                    *)
(* [mod |-> "m1", name |-> "a"]; a reference written in a rule's srcs or   *)
(* deps is a record [kind, mod, name] where kind = "file" stands for a     *)
(* string that util.is_rule_path rejects and mod = "" for the local form   *)
(* ':name'.                                                                *)
(***************************************************************************)
EXTENDS Integers, Sequences, FiniteSets, TLC

\* ------------------------------------------------------------------ bounds
\* Longest target list handed to calculate_rule_sequence / execute_async.
MaxTargets == 2

\* Most listener registrations made on the Deferred under test.
MaxRegistrations == 3

\* Longest list of Deferreds handed to gather_deferreds.
MaxDeferreds == 3

\* Most execute_async calls made on one BuildContext.
MaxCalls == 2

\* ------------------------------------------------------- the project family
None == [mod |-> "", name |-> ""]

Rule(m, n) == [mod |-> m, name |-> n]

\* Modules of the project and the rule names each one holds.
ModulePaths == {"m1", "m2"}

ModuleRules(m) == IF m = "m1" THEN {"a", "b"} ELSE IF m = "m2" THEN {"a"} ELSE {}

Rules == {Rule(m, n) : m \in ModulePaths, n \in {"a", "b"}} \ {Rule("m2", "b")}

\* A rule path that no module defines.
MissingRule == Rule("m1", "x")

RuleRef(m, n) == [mod |-> m, name |-> n, kind |-> "rule"]

FileRef == [mod |-> "a/b", name |-> "c", kind |-> "file"]

\* The way rule r writes a reference to rule q: local when in the same module.
RefTo(r, q) == IF q.mod = r.mod THEN RuleRef("", q.name) ELSE RuleRef(q.mod, q.name)

\* A local reference that no rule of the module answers.
DanglingRef == RuleRef("", MissingRule.name)

\* The references rule r may list: any other rule; m1:b always has a file
\* among its srcs; m2:a may have a dangling reference.
RefsOf(r) ==
  {RefTo(r, q) : q \in Rules \ {r}}
    \cup (IF r = Rule("m1", "b") THEN {FileRef} ELSE {})
    \cup (IF r = Rule("m2", "a") THEN {DanglingRef} ELSE {})

\* Projects: every assignment of dependent paths to the rules.
Projects ==
  {p \in [Rules -> SUBSET (UNION {RefsOf(r) : r \in Rules})] :
     \A r \in Rules : /\ p[r] \subseteq RefsOf(r)
                      /\ FileRef \in RefsOf(r) => FileRef \in p[r]}

\* ---------------------------------------------------------------- variables
VARIABLES
  project,          \* Rule -> set of references (Rule._dependent_paths)
  rule_nodes,       \* RuleGraph.rule_nodes: the rule paths having a node
  graph_edges,      \* RuleGraph.graph: edges <<dependency, dependent>>
  last_call,        \* the latest graph operation and its outcome
  deferred,         \* a Deferred under test (anvil/async.py)
  calls,            \* the listener invocations so far: <<fn, args>>
  registered,       \* the registrations so far: [fn, op, done]
  regs,             \* number of add_callback_fn / add_errback_fn calls made
  last_op,          \* the latest Deferred operation and its outcome
  stop_on_error,    \* BuildContext.stop_on_error
  behaviour,        \* rule of the run -> what begin() of its context does
  run,              \* "idle", "kickoff", "returned" or the exception raised
  run_targets,      \* the target list execute_async was called with
  rule_sequence,    \* execute_async: rule_sequence
  kick_left,        \* pumps the kick-off loop of execute_async still makes
  remaining_rules,  \* execute_async: remaining_rules (a deque)
  in_flight_rules,  \* execute_async: in_flight_rules
  any_failed,       \* execute_async: any_failed[0]
  main_deferred,    \* execute_async: main_deferred
  rule_contexts,    \* BuildContext.rule_contexts: rule path -> RuleContext
  deferreds,        \* gather_deferreds: the input Deferreds
  errback_if_any_fail, \* gather_deferreds: the flag
  gather,           \* gather_deferreds: gather_deferred, pending, result_tuples
  caller,           \* the code that calls the BuildContext: executor, calls made
  result,           \* the tuple the latest get_rule_results call returned
  threads,          \* the threads inside a pump step: [thread, next_rule]
  task_executor,    \* a TaskExecutor, its pool and the threads that use it
  rule_object,      \* a Rule: name, parent_module, path (anvil/rule.py)
  chain_ctx,        \* a RuleContext that chains on Deferreds (_chain)
  project_modules,  \* a Project: its modules table, its module resolver
  history           \* what the run has done so far (for the properties)

graphVars == <<project, rule_nodes, graph_edges, last_call>>

deferredVars == <<deferred, calls, registered, regs, last_op>>

runVars == <<stop_on_error, behaviour, run, run_targets, rule_sequence, kick_left,
             remaining_rules, in_flight_rules, any_failed, main_deferred,
             rule_contexts, history>>

gatherVars == <<deferreds, errback_if_any_fail, gather>>

callerVars == <<caller, result, threads>>

taskVars == <<task_executor, rule_object, chain_ctx, project_modules>>

\* --------------------------------------------------------------- util.py
is_rule_path(value) == value.kind = "rule"

\* ------------------------------------------------------------ project.py
\* os.path.dirname of a module path; module paths here have no directory.
Dirname(path) == ""

\* StaticModuleResolver.resolve_module_path
resolve_module_path(path, working_path) ==
  IF working_path # "" THEN <<working_path, path>> ELSE path

\* Module.get_rule
get_rule(m, rule_name) ==
  IF rule_name \in ModuleRules(m) THEN Rule(m, rule_name) ELSE None

\* A resolve_rule that answers None for a module it cannot find.
resolve_rule_Missing(ref, req) ==
  IF ref.kind # "rule" THEN [err |-> "NameError", rule |-> None]
  ELSE IF ref.mod = "" /\ req = "" THEN [err |-> "KeyError", rule |-> None]
  ELSE IF ref.mod # ""
    THEN LET full_path == resolve_module_path(ref.mod,
                             IF req # "" THEN Dirname(req) ELSE "")
         IN IF full_path \in ModulePaths
              THEN [err |-> "none", rule |-> get_rule(full_path, ref.name)]
              ELSE [err |-> "none", rule |-> None]
    ELSE [err |-> "none", rule |-> get_rule(req, ref.name)]

\* Project.resolve_rule with the StaticModuleResolver (can_resolve_local is
\* False).  req = "" stands for requesting_module=None.
resolve_rule(ref, req) ==
  IF ref.kind # "rule" THEN [err |-> "NameError", rule |-> None]
  ELSE IF ref.mod = "" /\ req = "" THEN [err |-> "KeyError", rule |-> None]
  ELSE IF ref.mod # ""
    THEN LET full_path == resolve_module_path(ref.mod,
                             IF req # "" THEN Dirname(req) ELSE "")
         IN IF full_path \in ModulePaths
              THEN [err |-> "none", rule |-> get_rule(full_path, ref.name)]
              ELSE [err |-> "IOError", rule |-> None]
    ELSE [err |-> "none", rule |-> get_rule(req, ref.name)]

\* ------------------------------------------------- set and graph helpers
SeqPerms(S) ==
  {s \in [1..Cardinality(S) -> S] : \A x \in S : \E i \in DOMAIN s : s[i] = x}

\* The rule a reference names, by name only (iteration key).
RefKey(ref, req) ==
  IF ref.name = MissingRule.name THEN MissingRule
  ELSE Rule(IF ref.mod = "" THEN req ELSE ref.mod, ref.name)

\* The keys an iteration order ranks.
OrdKeys == Rules \cup {MissingRule}

\* The iteration order of a Python set of references: the order in which
\* the keys appear in ord (an arbitrary permutation).
IterOrder(S, req, ord) ==
  LET keys == SelectSeq(ord, LAMBDA k : \E x \in S : RefKey(x, req) = k)
  IN [i \in DOMAIN keys |-> CHOOSE x \in S : RefKey(x, req) = keys[i]]

RECURSIVE Descendants(_, _)
\* Nodes reachable from the set S along the edges E (S included).
Descendants(E, S) ==
  LET nxt == S \cup {e[2] : e \in {f \in E : f[1] \in S}}
  IN IF nxt = S THEN S ELSE Descendants(E, nxt)

\* networkx.has_path(G, source, target)
has_path(E, source, target) == target \in Descendants(E, {source})

\* networkx.is_directed_acyclic_graph(G)
is_directed_acyclic_graph(E) ==
  \A e \in E : e[1] \notin Descendants(E, {e[2]})

\* DiGraph.reverse()
reverse(E) == {<<e[2], e[1]>> : e \in E}

\* networkx.topological_sort(G): any order of the nodes N in which every
\* edge of E goes from an earlier to a later position.
topological_sort(N, E) ==
  {s \in SeqPerms(N) :
     \A i, j \in DOMAIN s : <<s[i], s[j]>> \in E => i < j}

\* ---------------------------------------------- what the project declares
\* The rules that rule r names in its srcs or deps.
DirectDeps(r) ==
  {q \in Rules : \E d \in project[r] :
     is_rule_path(d) /\ resolve_rule(d, r.mod).rule = q}

DeclaredEdges == UNION {{<<q, r>> : q \in DirectDeps(r)} : r \in Rules}

\* A transitively depends on B (A # B, or A on a cycle through itself).
DependsOn(A, B) ==
  B \in Descendants(reverse(DeclaredEdges), DirectDeps(A))

\* The rules named by a target list, and everything they depend on.
TargetRules(targets) ==
  {q \in Rules : \E i \in DOMAIN targets : resolve_rule(targets[i], "").rule = q}

Closure(targets) == Descendants(reverse(DeclaredEdges), TargetRules(targets))

\* -------------------------------------------------------------- async.py
\* A value passed to callback()/errback(); exception tells whether it is an
\* instance of Exception, key is "" for a positional argument and the
\* keyword for a keyword argument. An argument tuple stands for
\* (*args, **kwargs): the positional arguments, then the keyword ones.
Arg(v) == [value |-> v, exception |-> FALSE, key |-> ""]

Exc(v) == [value |-> v, exception |-> TRUE, key |-> ""]

\* The argument a passed by keyword: k=a
Kw(k, a) == [a EXCEPT !.key = k]

\* *args
Positional(args) == SelectSeq(args, LAMBDA a : a.key = "")

\* **kwargs
Keywords(args) == SelectSeq(args, LAMBDA a : a.key # "")

\* Argument tuples a Deferred is resolved with.
ArgValues == {<<>>, <<Arg("v")>>, <<Exc("exc")>>}

NoArgs == <<Arg("None")>>

\* Deferred.__init__
NewDeferred ==
  [callbacks |-> <<>>, errbacks |-> <<>>, is_done |-> FALSE, failed |-> FALSE,
   exception |-> Arg("None"), args |-> NoArgs]

\* Deferred.is_done
is_done(d) == d.is_done

\* The outcome of a Deferred method: the Deferred afterwards, the exception
\* raised and the listeners the method invoked, in order.
Outcome(d, raised, fired) == [d |-> d, raised |-> raised, fired |-> fired]

\* Deferred.callback(*args)
Deferred_callback(d, args) ==
  IF d.is_done THEN Outcome(d, "AssertionError", <<>>)
  ELSE Outcome([d EXCEPT !.is_done = TRUE, !.args = args,
                         !.callbacks = <<>>, !.errbacks = <<>>],
               "none", d.callbacks)

\* isinstance(value, Exception)
IsException(value) == value.exception

\* errback() without the assertion on a Deferred that is already done.
Deferred_errback_Again(d, args) ==
  Outcome([d EXCEPT !.is_done = TRUE, !.failed = TRUE, !.args = args,
                    !.callbacks = <<>>, !.errbacks = <<>>],
          "none", d.errbacks)

\* Deferred.errback(*args)
Deferred_errback(d, args) ==
  IF d.is_done THEN Outcome(d, "AssertionError", <<>>)
  ELSE Outcome([d EXCEPT !.is_done = TRUE, !.failed = TRUE,
                         !.exception =
                           IF Len(Positional(args)) > 0
                                /\ IsException(Positional(args)[1])
                             THEN Positional(args)[1] ELSE @,
                         !.args = args,
                         !.callbacks = <<>>, !.errbacks = <<>>],
               "none", d.errbacks)

\* add_callback_fn() that stores the function whatever the Deferred's state.
Deferred_add_callback_fn_Store(d, fn) ==
  Outcome([d EXCEPT !.callbacks = Append(@, fn)], "none", <<>>)

\* Deferred.add_callback_fn(fn)
Deferred_add_callback_fn(d, fn) ==
  IF d.is_done
    THEN Outcome(d, "none", IF ~d.failed THEN <<fn>> ELSE <<>>)
    ELSE Outcome([d EXCEPT !.callbacks = Append(@, fn)], "none", <<>>)

\* Deferred.add_errback_fn(fn)
Deferred_add_errback_fn(d, fn) ==
  IF d.is_done
    THEN Outcome(d, "none", IF d.failed THEN <<fn>> ELSE <<>>)
    ELSE Outcome([d EXCEPT !.errbacks = Append(@, fn)], "none", <<>>)

\* ------------------------------------------- a Deferred and its listeners
\* The functions a test registers; each records its call. "reg" also
\* registers "g" on the Deferred, with add_callback_fn and add_errback_fn,
\* from inside its call.
Listeners == {"f1", "f2", "reg"}

NoOp == [op |-> "none", args |-> NoArgs, raised |-> "none", before |-> NewDeferred,
         calls_before |-> <<>>]

IdleDeferred ==
  /\ deferred = NewDeferred
  /\ calls = <<>>
  /\ registered = <<>>
  /\ regs = 0
  /\ last_op = NoOp

\* A registration: the function, the method it was registered with and
\* whether the Deferred was already resolved.
Registration(fn, op, d) == [fn |-> fn, op |-> op, done |-> d.is_done]

\* The calls and registrations so far, as a listener run sees them.
Log(cs, rs) == [calls |-> cs, registered |-> rs]

RECURSIVE Invoke(_, _, _, _)
\* The listeners fired[i..] run in order, each with the arguments of the
\* resolved Deferred d; "reg" makes its two registrations while it runs.
Invoke(d, fired, i, log) ==
  IF i > Len(fired) THEN log
  ELSE LET called == Log(Append(log.calls, <<fired[i], d.args>>), log.registered)
       IN IF fired[i] # "reg" THEN Invoke(d, fired, i + 1, called)
          ELSE LET o1 == Deferred_add_callback_fn(d, "g")
                   l1 == Invoke(o1.d, o1.fired, 1,
                                Log(called.calls,
                                    Append(called.registered,
                                           Registration("g", "add_callback_fn", d))))
                   o2 == Deferred_add_errback_fn(o1.d, "g")
                   l2 == Invoke(o2.d, o2.fired, 1,
                                Log(l1.calls,
                                    Append(l1.registered,
                                           Registration("g", "add_errback_fn", o1.d))))
               IN Invoke(o2.d, fired, i + 1, l2)

\* The effect of one Deferred method call made by a test; rs holds the
\* registrations made up to the call, the call's own included.
Apply(op, args, out, rs) ==
  /\ deferred' = out.d
  /\ \E log \in {Invoke(out.d, out.fired, 1, Log(calls, rs))} :
       /\ calls' = log.calls
       /\ registered' = log.registered
  /\ last_op' = [op |-> op, args |-> args, raised |-> out.raised,
                 before |-> deferred, calls_before |-> calls]

Callback(args) ==
  /\ \E out \in {Deferred_callback(deferred, args)} :
       Apply("callback", args, out, registered)
  /\ UNCHANGED <<regs, graphVars, runVars, gatherVars, callerVars, taskVars>>

Errback(args) ==
  /\ \E out \in {Deferred_errback(deferred, args)} :
       Apply("errback", args, out, registered)
  /\ UNCHANGED <<regs, graphVars, runVars, gatherVars, callerVars, taskVars>>

AddCallbackFn(fn) ==
  /\ regs < MaxRegistrations
  /\ regs' = regs + 1
  /\ \E out \in {Deferred_add_callback_fn(deferred, fn)} :
       Apply("add_callback_fn", <<fn>>, out,
             Append(registered, Registration(fn, "add_callback_fn", deferred)))
  /\ UNCHANGED <<graphVars, runVars, gatherVars, callerVars, taskVars>>

AddErrbackFn(fn) ==
  /\ regs < MaxRegistrations
  /\ regs' = regs + 1
  /\ \E out \in {Deferred_add_errback_fn(deferred, fn)} :
       Apply("add_errback_fn", <<fn>>, out,
             Append(registered, Registration(fn, "add_errback_fn", deferred)))
  /\ UNCHANGED <<graphVars, runVars, gatherVars, callerVars, taskVars>>

\* -------------------------------------------- async.py: gather_deferreds
\* The closure state of one gather_deferreds call; called tells that the
\* call was made, order lists the inputs resolved after it, in the order of
\* their resolutions, resolutions counts the callback()/errback() calls made
\* on gather_deferred and err is the exception one of them raised.
NoGather ==
  [called |-> FALSE, gather_deferred |-> NewDeferred, pending |-> 0,
   result_tuples |-> <<>>, order |-> <<>>, resolutions |-> 0, err |-> "none"]

\* The keyword arguments of a resolution made without any.
NoKwargs == <<>>

\* The None that fills result_tuples before an input has resolved.
Unset == <<"None">>

\* A _complete that always resolves to success.
GatherResolve_Callback(gs, flag) ==
  [gs EXCEPT !.gather_deferred = Deferred_callback(@, <<Arg(gs.result_tuples)>>).d,
             !.resolutions = @ + 1]

\* gather_deferreds._complete, once pending is 0: callback, or errback when
\* the flag is set and the scan of result_tuples meets a failed input; the
\* scan raises TypeError on an entry that is still None.
GatherResolve(gs, flag) ==
  LET stops == {i \in DOMAIN gs.result_tuples :
                  gs.result_tuples[i] = Unset \/ ~gs.result_tuples[i][1]}
      first == CHOOSE i \in stops : \A j \in stops : i <= j
      out == IF flag /\ stops # {}
               THEN Deferred_errback(gs.gather_deferred, <<Arg(gs.result_tuples)>>)
               ELSE Deferred_callback(gs.gather_deferred, <<Arg(gs.result_tuples)>>)
  IN IF flag /\ stops # {} /\ gs.result_tuples[first] = Unset
       THEN [gs EXCEPT !.err = "TypeError"]
       ELSE [gs EXCEPT !.gather_deferred = out.d,
                       !.resolutions = @ + 1,
                       !.err = IF out.raised # "none" THEN out.raised ELSE @]

\* A _complete that does not wait for the other inputs.
Complete_First(gs, flag) ==
  IF gs.gather_deferred.is_done THEN gs
  ELSE GatherResolve([gs EXCEPT !.pending = @ - 1], flag)

\* gather_deferreds._complete
Complete(gs, flag) ==
  IF gs.pending - 1 = 0
    THEN GatherResolve([gs EXCEPT !.pending = @ - 1], flag)
    ELSE [gs EXCEPT !.pending = @ - 1]

\* A capture that files its result in the first free entry.
Capture_FirstFree(gs, fn, args, flag) ==
  Complete([gs EXCEPT !.result_tuples[CHOOSE i \in DOMAIN gs.result_tuples :
                                         /\ gs.result_tuples[i] = Unset
                                         /\ \A j \in 1..(i - 1) :
                                              gs.result_tuples[j] # Unset]
                        = <<fn.fn = "_callback", Positional(args), Keywords(args)>>],
           flag)

\* gather_deferreds._makecapture._callback / _errback for input fn.n
Capture(gs, fn, args, flag) ==
  Complete([gs EXCEPT !.result_tuples[fn.n] = <<fn.fn = "_callback", Positional(args), Keywords(args)>>],
           flag)

\* The captures a Deferred method fired, run against the gather state.
FireCaptures(gs, fired, args, flag) ==
  IF fired = <<>> THEN gs ELSE Capture(gs, fired[1], args, flag)

CaptureFn(name, n) == [fn |-> name, n |-> n]

RECURSIVE MakeCaptures(_, _, _, _)
\* The loop of gather_deferreds over _makecapture(n, deferreds[n]); yields
\* the inputs and the gather state afterwards.
MakeCaptures(ds, gs, n, flag) ==
  IF n > Len(ds) THEN [deferreds |-> ds, gather |-> gs]
  ELSE LET o1 == Deferred_add_callback_fn(ds[n], CaptureFn("_callback", n))
           g1 == FireCaptures(gs, o1.fired, ds[n].args, flag)
           o2 == Deferred_add_errback_fn(o1.d, CaptureFn("_errback", n))
           g2 == FireCaptures(g1, o2.fired, ds[n].args, flag)
       IN MakeCaptures([ds EXCEPT ![n] = o2.d], g2, n + 1, flag)

\* gather_deferreds(deferreds, errback_if_any_fail)
gather_deferreds(ds, flag) ==
  IF Len(ds) = 0
    THEN [deferreds |-> ds,
          gather |-> [NoGather EXCEPT
                        !.called = TRUE,
                        !.gather_deferred = Deferred_callback(@, <<Arg(<<>>)>>).d,
                        !.resolutions = 1]]
    ELSE MakeCaptures(ds, [NoGather EXCEPT
                             !.called = TRUE,
                             !.pending = Len(ds),
                             !.result_tuples = [i \in 1..Len(ds) |-> Unset]],
                      1, flag)

\* The Deferreds a caller may hand over: pending, or already resolved.
InputDeferreds ==
  {NewDeferred}
    \cup {Deferred_callback(NewDeferred, args).d : args \in ArgValues}
    \cup {Deferred_errback(NewDeferred, args).d : args \in ArgValues}

InputLists == UNION {[1..n -> InputDeferreds] : n \in 0..MaxDeferreds}

IdleGather ==
  /\ deferreds = <<>>
  /\ errback_if_any_fail = FALSE
  /\ gather = NoGather

\* A call of gather_deferreds.
GatherDeferreds(ds, flag) ==
  /\ ~gather.called
  /\ errback_if_any_fail' = flag
  /\ \E r \in {gather_deferreds(ds, flag)} :
       /\ deferreds' = r.deferreds
       /\ gather' = r.gather
  /\ UNCHANGED <<graphVars, deferredVars, runVars, callerVars, taskVars>>

\* Input n is resolved by its owner, by callback (ok) or errback.
ResolveInput(n, ok, args) ==
  /\ gather.called
  /\ n \in DOMAIN deferreds
  /\ ~deferreds[n].is_done
  /\ \E out \in {IF ok THEN Deferred_callback(deferreds[n], args)
                        ELSE Deferred_errback(deferreds[n], args)} :
       /\ deferreds' = [deferreds EXCEPT ![n] = out.d]
       /\ gather' = FireCaptures([gather EXCEPT !.order = Append(@, n)],
                                 out.fired, args, errback_if_any_fail)
  /\ UNCHANGED <<errback_if_any_fail, graphVars, deferredVars, runVars,
                 callerVars, taskVars>>

\* -------------------------------------------------------------- graph.py
\* A graph value: the nodes (RuleGraph.rule_nodes), the edges
\* <<dependency, dependent>> (RuleGraph.graph) and the exception raised.
Graph(nodes, edges) == [nodes |-> nodes, edges |-> edges, err |-> "none"]

Raise(g, e) == [g EXCEPT !.err = e]

RECURSIVE AddEdges(_, _, _)
\* The edge loop of _ensure_rules_present over the <<rule, dep>> pairs.
AddEdges(g, pairs, i) ==
  IF i > Len(pairs) THEN g
  ELSE LET rule == pairs[i][1]
           res == resolve_rule(pairs[i][2], rule.mod)
       IN IF res.err # "none" THEN Raise(g, res.err)
          ELSE IF res.rule = None THEN Raise(g, "AttributeError")
          ELSE IF res.rule \notin g.nodes THEN Raise(g, "AssertionError")
          ELSE AddEdges([g EXCEPT !.edges = @ \cup {<<res.rule, rule>>}],
                        pairs, i + 1)

RECURSIVE DepPairs(_, _, _)
\* The <<rule, dep>> pairs the edge loop visits, in order.
DepPairs(rules, i, ord) ==
  IF i > Len(rules) THEN <<>>
  ELSE LET rule == rules[i]
           deps == IterOrder({d \in project[rule] : is_rule_path(d)},
                             rule.mod, ord)
       IN [k \in DOMAIN deps |-> <<rule, deps[k]>>] \o DepPairs(rules, i + 1, ord)

RECURSIVE EnsureLoop(_, _, _, _, _, _)
RECURSIVE ensure_rules_present(_, _, _, _)

\* The first loop of _ensure_rules_present: resolve, add the node, recurse.
EnsureLoop(g, rule_paths, i, rules, req, ord) ==
  IF i > Len(rule_paths) THEN [g |-> g, rules |-> rules]
  ELSE LET res == resolve_rule(rule_paths[i], req)
       IN IF res.err # "none" THEN [g |-> Raise(g, res.err), rules |-> rules]
          ELSE IF res.rule = None
            THEN [g |-> Raise(g, "KeyError"), rules |-> rules]
          ELSE IF res.rule \in g.nodes
            THEN EnsureLoop(g, rule_paths, i + 1, Append(rules, res.rule),
                            req, ord)
          ELSE LET rule == res.rule
                   g1 == [g EXCEPT !.nodes = @ \cup {rule}]
                   deps == IterOrder({d \in project[rule] : is_rule_path(d)},
                                     rule.mod, ord)
                   g2 == IF Len(deps) > 0
                           THEN ensure_rules_present(g1, deps, rule.mod, ord)
                           ELSE g1
               IN IF g2.err # "none"
                    THEN [g |-> g2, rules |-> rules]
                    ELSE EnsureLoop(g2, rule_paths, i + 1,
                                    Append(rules, rule), req, ord)

\* An _ensure_rules_present that looks for cycles only after it has added
\* an edge.
ensure_rules_present_NewEdges(g, rule_paths, req, ord) ==
  LET r1 == EnsureLoop(g, rule_paths, 1, <<>>, req, ord)
  IN IF r1.g.err # "none" THEN r1.g
     ELSE LET g2 == AddEdges(r1.g, DepPairs(r1.rules, 1, ord), 1)
          IN IF g2.err # "none" THEN g2
             ELSE IF g2.edges # r1.g.edges /\ ~is_directed_acyclic_graph(g2.edges)
               THEN Raise(g2, "ValueError")
             ELSE g2

\* RuleGraph._ensure_rules_present
ensure_rules_present(g, rule_paths, req, ord) ==
  LET r1 == EnsureLoop(g, rule_paths, 1, <<>>, req, ord)
  IN IF r1.g.err # "none" THEN r1.g
     ELSE LET g2 == AddEdges(r1.g, DepPairs(r1.rules, 1, ord), 1)
          IN IF g2.err # "none" THEN g2
             ELSE IF ~is_directed_acyclic_graph(g2.edges)
               THEN Raise(g2, "ValueError")
             ELSE g2

\* RuleGraph.has_dependency
has_dependency(nodes, edges, rule_path, predecessor_rule_path) ==
  has_path(edges, predecessor_rule_path, rule_path)

\* RuleGraph.has_rule
has_rule(nodes, rule_path) == rule_path \in nodes

RECURSIVE add_rule_node_dependencies(_, _, _, _)
RECURSIVE AddOutEdges(_, _, _, _, _, _)

\* The loop over reverse_graph.out_edges_iter(rule_node).
AddOutEdges(sg, rule_node, outs, i, rev, ord) ==
  IF i > Len(outs) THEN sg
  ELSE LET out_rule_node == outs[i]
           sg1 == IF out_rule_node \notin sg.nodes
                    THEN add_rule_node_dependencies(sg, out_rule_node, rev, ord)
                    ELSE sg
           sg2 == [sg1 EXCEPT !.edges = @ \cup {<<rule_node, out_rule_node>>}]
       IN AddOutEdges(sg2, rule_node, outs, i + 1, rev, ord)

\* calculate_rule_sequence._add_rule_node_dependencies
add_rule_node_dependencies(sg, rule_node, rev, ord) ==
  IF rule_node \in sg.nodes THEN sg
  ELSE LET sg1 == [sg EXCEPT !.nodes = @ \cup {rule_node}]
           outs == SelectSeq(ord, LAMBDA k : <<rule_node, k>> \in rev)
       IN AddOutEdges(sg1, rule_node, outs, 1, rev, ord)

RECURSIVE AddTargets(_, _, _, _, _, _)
\* The loop of calculate_rule_sequence over target_rule_paths.
AddTargets(sg, nodes, targets, i, rev, ord) ==
  IF i > Len(targets) \/ sg.err # "none" THEN sg
  ELSE LET res == resolve_rule(targets[i], "")
       IN IF res.err # "none" THEN Raise(sg, res.err)
          ELSE IF res.rule = None \/ res.rule \notin nodes
            THEN Raise(sg, "AssertionError")
          ELSE AddTargets(add_rule_node_dependencies(sg, res.rule, rev, ord),
                          nodes, targets, i + 1, rev, ord)

\* The sequence graph of calculate_rule_sequence, reversed so that it runs
\* from dependencies to targets.
reversed_sequence_graph(g, targets, ord) ==
  LET reverse_graph == reverse(g.edges)
      sequence_graph == AddTargets(Graph({}, {}), g.nodes, targets, 1,
                                   reverse_graph, ord)
  IN [sequence_graph EXCEPT !.edges = reverse(@)]

\* RuleGraph.calculate_rule_sequence: the graph afterwards, the exception
\* raised and the sequences it may return.
calculate_rule_sequence(g, targets, ord) ==
  LET g1 == ensure_rules_present(g, targets, "", ord)
  IN IF g1.err # "none" THEN [g |-> g1, err |-> g1.err, seqs |-> {<<>>}]
     ELSE LET rsg == reversed_sequence_graph(g1, targets, ord)
          IN IF rsg.err # "none"
               THEN [g |-> g1, err |-> rsg.err, seqs |-> {<<>>}]
               ELSE [g |-> g1, err |-> "none",
                     seqs |-> topological_sort(rsg.nodes, rsg.edges)]

\* ------------------------------------------------ inputs of the operations
\* Target paths a caller may pass: every rule, absolute, and a missing one.
TargetRefs == {RuleRef(r.mod, r.name) : r \in Rules \cup {MissingRule}}

TargetLists == UNION {[1..n -> TargetRefs] : n \in 0..MaxTargets}

\* The iteration orders tried for Python sets and dicts: one order and its
\* reverse.
Orders ==
  {<<Rule("m1", "a"), Rule("m1", "b"), Rule("m2", "a"), MissingRule>>,
   <<MissingRule, Rule("m2", "a"), Rule("m1", "b"), Rule("m1", "a")>>}

NoCall == [op |-> "none", targets |-> <<>>, err |-> "none", seq |-> <<>>]

\* Targets execute_async must refuse besides a missing rule: a file path, a
\* rule of a module that does not exist and a local rule path.
InvalidTargets == {FileRef, RuleRef("m3", "a"), RuleRef("", "a")}

\* The target lists handed to execute_async.
RunTargetLists ==
  UNION {[1..n -> TargetRefs \cup InvalidTargets] : n \in 0..MaxTargets}

\* ------------------------------------------------------------ context.py
\* class Status
WAITING == 0

RUNNING == 1

SUCCEEDED == 2

FAILED == 3

\* What begin() of a rule's context does after RuleContext.begin: call
\* _succeed(), call _fail(), or leave the rule running until its work ends.
Behaviours == {"succeed", "fail", "async"}

\* RuleContext.__init__
NewRuleContext ==
  [status |-> WAITING, deferred |-> NewDeferred, all_output_files |-> <<>>]

\* The output paths a rule declares in its begin().
OutputFiles == <<"out">>

\* RuleContext._append_output_paths
append_output_paths(ctx, paths) == [ctx EXCEPT !.all_output_files = @ \o paths]

\* The state an execute_async run works on: the closure variables of
\* execute_async, BuildContext.rule_contexts and the history of the run.
NoHistory ==
  [started |-> <<>>,        \* the rules started, in order
   early |-> {},            \* rules started before a dependency was terminal
   cascaded |-> {},         \* rules launched with a FAILED direct dependency
   begun |-> {},            \* rules whose begin() was invoked
   created |-> <<>>,        \* a rule for each create_context() made
   begins |-> <<>>,         \* a rule for each begin() invoked
   refused |-> <<>>,        \* a rule for each assertion _execute_rule failed
   reported |-> FALSE,      \* a failure was reported to the pump
   late |-> {}]             \* rules started after that, under stop_on_error

\* Status.SUCCEEDED or Status.FAILED
Terminal(status) == status \in {SUCCEEDED, FAILED}

\* A get_rule_results that hands out the context's own list.
rule_results_NoCopy(ctxs, rule) ==
  IF rule \in DOMAIN ctxs
    THEN [status |-> ctxs[rule].status, files |-> ctxs[rule].all_output_files,
          same_list |-> TRUE]
    ELSE [status |-> WAITING, files |-> <<>>, same_list |-> FALSE]

\* BuildContext.get_rule_results(rule) for a Rule object: the tuple
\* (status, all_output_files[:]); same_list tells whether the list returned
\* is the very list object the context holds.
rule_results(ctxs, rule) ==
  IF rule \in DOMAIN ctxs
    THEN [status |-> ctxs[rule].status, files |-> ctxs[rule].all_output_files,
          same_list |-> FALSE]
    ELSE [status |-> WAITING, files |-> <<>>, same_list |-> FALSE]

\* BuildContext.get_rule_results(rule)[0]
get_rule_results(ctxs, rule) == rule_results(ctxs, rule).status

\* The rules named by the dependent paths of a rule.
DependentRules(rule) ==
  {resolve_rule(dep, rule.mod).rule : dep \in {d \in project[rule] : is_rule_path(d)}}

\* A launch that never looks at the dependencies of the rule.
check_predecessor_failures_Never(ctxs, rule) == FALSE

\* RuleContext.check_predecessor_failures
check_predecessor_failures(ctxs, rule) ==
  \E dep \in project[rule] :
    /\ is_rule_path(dep)
    /\ ctxs[resolve_rule(dep, rule.mod).rule].status = FAILED

\* RuleContext._succeed
succeed(ctx) ==
  [ctx EXCEPT !.status = SUCCEEDED,
              !.deferred = Deferred_callback(@, <<>>).d]

\* RuleContext._fail
fail(ctx) ==
  [ctx EXCEPT !.status = FAILED,
              !.deferred = Deferred_errback(@, <<>>).d]

\* A cascade that calls the errback and leaves the status as it was.
cascade_failure_Unmarked(ctx) ==
  [ctx EXCEPT !.deferred = Deferred_errback(@, <<>>).d]

\* RuleContext.cascade_failure
cascade_failure(ctx) == fail(ctx)

\* A begin() that starts the rule's work and leaves the status alone.
begin_Unmarked(ctx, b) ==
  LET started == append_output_paths(ctx, OutputFiles)
  IN IF b = "succeed" THEN succeed(started)
     ELSE IF b = "fail" THEN fail(started)
     ELSE started

\* RuleContext.begin, followed by what the rule's own begin() does: it
\* appends its output paths (as ArchiveFilesRule._Context.begin does) and
\* then succeeds, fails or leaves its work running.
begin(ctx, b) ==
  LET running == append_output_paths([ctx EXCEPT !.status = RUNNING], OutputFiles)
  IN IF b = "succeed" THEN succeed(running)
     ELSE IF b = "fail" THEN fail(running)
     ELSE running

\* What the history records when a rule is launched.
Launched(st, rule, edges) ==
  LET deps == Descendants(reverse(edges), {rule}) \ {rule}
      direct == {q \in Rules : <<q, rule>> \in edges}
  IN [st.history EXCEPT
        !.started = Append(@, rule),
        !.early = IF \E d \in deps : ~Terminal(get_rule_results(st.ctxs, d))
                    THEN @ \cup {rule} ELSE @,
        !.cascaded = IF \E d \in direct : get_rule_results(st.ctxs, d) = FAILED
                       THEN @ \cup {rule} ELSE @,
        !.late = IF st.history.reported /\ stop_on_error
                   THEN @ \cup {rule} ELSE @]

\* The value of a one-element set: The({e(x) : x \in {v}}) is e(v), with v
\* evaluated once.
The(S) == CHOOSE v \in S : TRUE

\* An _execute_rule without its assertion.
execute_rule_Again(st, rule, beh) ==
  The({
    IF \E q \in DependentRules(rule) : q \notin DOMAIN ctxs1
      THEN [st EXCEPT !.ctxs = ctxs1, !.err = "AttributeError",
                      !.history.created = Append(@, rule)]
    ELSE IF check_predecessor_failures(ctxs1, rule)
      THEN [st EXCEPT !.ctxs = (rule :> cascade_failure(NewRuleContext)) @@ st.ctxs,
                      !.history.created = Append(@, rule)]
      ELSE [st EXCEPT !.ctxs = (rule :> begin(NewRuleContext, beh[rule])) @@ st.ctxs,
                      !.history.created = Append(@, rule),
                      !.history.begins = Append(@, rule),
                      !.history.begun = @ \cup {rule}]
    : ctxs1 \in {(rule :> NewRuleContext) @@ st.ctxs}})

\* BuildContext._execute_rule
execute_rule(st, rule, beh) ==
  IF rule \in DOMAIN st.ctxs
    THEN [st EXCEPT !.err = "AssertionError", !.history.refused = Append(@, rule)]
  ELSE The({
    IF \E q \in DependentRules(rule) : q \notin DOMAIN ctxs1
      THEN [st EXCEPT !.ctxs = ctxs1, !.err = "AttributeError",
                      !.history.created = Append(@, rule)]
    ELSE IF check_predecessor_failures(ctxs1, rule)
      THEN [st EXCEPT !.ctxs = (rule :> cascade_failure(NewRuleContext)) @@ st.ctxs,
                      !.history.created = Append(@, rule)]
      ELSE [st EXCEPT !.ctxs = (rule :> begin(NewRuleContext, beh[rule])) @@ st.ctxs,
                      !.history.created = Append(@, rule),
                      !.history.begins = Append(@, rule),
                      !.history.begun = @ \cup {rule}]
    : ctxs1 \in {(rule :> NewRuleContext) @@ st.ctxs}})

\* list.remove(x): drops the first occurrence.
Remove(seq, x) ==
  LET i == CHOOSE k \in DOMAIN seq : seq[k] = x /\ \A j \in 1..(k - 1) : seq[j] # x
  IN SubSeq(seq, 1, i - 1) \o SubSeq(seq, i + 1, Len(seq))

\* The resolution of main_deferred at the end of _pump; the assertion of
\* callback() and errback() fails on a Deferred that is already resolved.
Done(st) ==
  The({[st EXCEPT !.main = o.d,
                  !.err = IF o.raised # "none" THEN o.raised ELSE @]
       : o \in {IF ~st.any_failed THEN Deferred_callback(st.main, <<>>)
                                  ELSE Deferred_errback(st.main, <<>>)}})

\* A pump that never waits for a rule in flight.
Blocked_Never(st, next_rule) == FALSE

\* The head of remaining_rules depends on a rule in flight.
Blocked(st, next_rule) ==
  \E i \in DOMAIN st.in_flight :
    has_dependency(st.nodes, st.edges, next_rule, st.in_flight[i])

RECURSIVE pump(_, _, _)
RECURSIVE issue_rule(_, _, _)
RECURSIVE pump_next(_, _)

\* A listener that forgets to pump.
rule_listener_NoPump(st, rule, previous_succeeded, beh) ==
  [st EXCEPT !.in_flight = Remove(@, rule)]

\* execute_async._issue_rule._rule_callback / _rule_errback
rule_listener(st, rule, previous_succeeded, beh) ==
  pump([st EXCEPT !.in_flight = Remove(@, rule)], previous_succeeded, beh)

\* The listeners a Deferred method fired, run against the state.
Fire(st, fired, rule, beh) ==
  IF fired = <<>> \/ st.err # "none" THEN st
  ELSE rule_listener(st, rule, fired[1] = "_rule_callback", beh)

\* execute_async._issue_rule: the rule_deferred of _execute_rule gets the
\* two listeners, each run at once when the Deferred is already resolved.
add_rule_errback(st, rule, beh) ==
  IF st.err # "none" THEN st
  ELSE The({Fire([st EXCEPT !.ctxs[rule].deferred = o2.d], o2.fired, rule, beh)
            : o2 \in {Deferred_add_errback_fn(st.ctxs[rule].deferred,
                                              "_rule_errback")}})

add_rule_callback(st, rule, beh) ==
  IF st.err # "none" THEN st
  ELSE The({Fire([st EXCEPT !.ctxs[rule].deferred = o1.d], o1.fired, rule, beh)
            : o1 \in {Deferred_add_callback_fn(st.ctxs[rule].deferred,
                                               "_rule_callback")}})

issue_rule(st, rule, beh) ==
  The({The({The({add_rule_errback(st3, rule, beh)
                 : st3 \in {add_rule_callback(st2, rule, beh)}})
            : st2 \in {execute_rule(st1, rule, beh)}})
       : st1 \in {[st EXCEPT !.in_flight = Append(@, rule),
                             !.history = Launched(st, rule, DeclaredEdges)]}})

\* A pump that takes the rule at the right end of the queue.
pump_next_Last(st, beh) ==
  IF Len(st.remaining) > 0
    THEN IF Blocked(st, st.remaining[Len(st.remaining)]) THEN st
         ELSE issue_rule([st EXCEPT !.remaining = SubSeq(@, 1, Len(@) - 1)],
                         st.remaining[Len(st.remaining)], beh)
    ELSE Done(st)

\* The head of remaining_rules is issued unless a rule in flight blocks it.
pump_next(st, beh) ==
  IF Len(st.remaining) > 0
    THEN IF Blocked(st, Head(st.remaining)) THEN st
         ELSE issue_rule([st EXCEPT !.remaining = Tail(@)], Head(st.remaining), beh)
    ELSE Done(st)

\* A pump without the test of main_deferred.is_done().
pump_Regardless(st, previous_succeeded, beh) ==
  IF st.err # "none" THEN st
  ELSE The({pump_next(st1, beh)
            : st1 \in {[st EXCEPT
                          !.any_failed = @ \/ ~previous_succeeded,
                          !.history.reported = @ \/ ~previous_succeeded,
                          !.remaining = IF ~previous_succeeded /\ stop_on_error
                                          THEN <<>> ELSE @]}})

\* execute_async._pump
pump(st, previous_succeeded, beh) ==
  IF st.err # "none" THEN st
  ELSE IF is_done(st.main)
    THEN [st EXCEPT !.history.reported = @ \/ ~previous_succeeded]
  ELSE The({pump_next(st1, beh)
            : st1 \in {[st EXCEPT
                          !.any_failed = @ \/ ~previous_succeeded,
                          !.history.reported = @ \/ ~previous_succeeded,
                          !.remaining = IF ~previous_succeeded /\ stop_on_error
                                          THEN <<>> ELSE @]}})

\* The run state held in the variables.
RunState ==
  [remaining |-> remaining_rules, in_flight |-> in_flight_rules,
   any_failed |-> any_failed, main |-> main_deferred, ctxs |-> rule_contexts,
   nodes |-> rule_nodes, edges |-> graph_edges, history |-> history,
   err |-> "none"]

\* The variables after a step that ended in state st.
SetRunState(st) ==
  /\ remaining_rules' = st.remaining
  /\ in_flight_rules' = st.in_flight
  /\ any_failed' = st.any_failed
  /\ main_deferred' = st.main
  /\ rule_contexts' = st.ctxs
  /\ history' = st.history

\* ------------------------------------------------------------- task.py
\* InProcessTaskExecutor and MultiProcessTaskExecutor
Executors == {"in_process", "multi_process"}

\* TaskExecutor.wait(deferred) lets its caller go on: the in-process
\* executor never waits, the multi-process one spins until the Deferred,
\* which it did not create, is done.
wait(executor, d) == executor = "in_process" \/ is_done(d)

\* The code that uses the BuildContext, before it calls anything.
NoCaller ==
  [executor |-> "in_process",  \* BuildContext.task_executor
   calls |-> 0,                \* execute_async / execute_sync calls made
   sync |-> "none",            \* execute_sync: "waiting", then what it gave
   statuses |-> <<>>,          \* rule statuses when execute_sync returned
   contexts |-> <<>>,          \* rule_contexts when the latest call was made
   refused |-> <<>>]           \* history.refused when the latest call was made

\* No get_rule_results call made yet.
NoResult ==
  [rule |-> None,          \* the rule asked about
   status |-> WAITING,     \* the status returned
   returned |-> <<>>,      \* the list returned, as it was returned
   files |-> <<>>,         \* the list returned, as the caller has it now
   same_list |-> FALSE,    \* it is the list object the context holds
   err |-> "none"]         \* the exception raised

IdleCaller ==
  /\ caller = NoCaller
  /\ result = NoResult
  /\ threads = {}

\* BuildContext.__init__, before execute_async is called.
IdleRun ==
  /\ run = "idle"
  /\ behaviour = <<>>
  /\ run_targets = <<>>
  /\ rule_sequence = <<>>
  /\ kick_left = 0
  /\ remaining_rules = <<>>
  /\ in_flight_rules = <<>>
  /\ any_failed = FALSE
  /\ main_deferred = NewDeferred
  /\ rule_contexts = <<>>
  /\ history = NoHistory

\* ------------------------------------------------------ rule.py, module.py
\* The Rule objects of a test: two rules named 'a' and one named 'b'.
RuleObjects == {"a", "a2", "b"}

RuleName(o) == IF o = "b" THEN "b" ELSE "a"

\* parent_module of a Rule no module has adopted (None).
NoModule == "None"

\* Rule.__init__(name)
NewRule(name) == [name |-> name, parent_module |-> NoModule, path |-> ":" \o name]

\* set_parent_module without the test of self.parent_module.
set_parent_module_Again(rule, module) ==
  [rule |-> [rule EXCEPT !.parent_module = module,
                         !.path = module \o ":" \o rule.name],
   raised |-> "none"]

\* Rule.set_parent_module(module): the Rule afterwards, the exception raised.
set_parent_module(rule, module) ==
  IF rule.parent_module # NoModule
    THEN [rule |-> rule, raised |-> "ValueError"]
    ELSE [rule |-> [rule EXCEPT !.parent_module = module,
                                !.path = module \o ":" \o rule.name],
          raised |-> "none"]

\* The latest call on a Rule: the object, the module, the Rule before the
\* call, whether set_parent_module had been called on it before, whether
\* the call reached set_parent_module, and the exception raised; for
\* add_rule and add_rules also the list given and every module's rule table
\* before the call.
NoRuleCall ==
  [op |-> "none", object |-> "a", module |-> NoModule, before |-> NewRule("a"),
   again |-> FALSE, set |-> FALSE, raised |-> "none", list |-> <<>>,
   table |-> [m \in ModulePaths |-> [n \in {"a", "b"} |-> "None"]]]

\* Module.__init__(path) for every module and Rule(name) for every object.
NewRuleObjects ==
  [rules |-> [o \in RuleObjects |-> NewRule(RuleName(o))],
   modules |-> [m \in ModulePaths |-> [n \in {"a", "b"} |-> "None"]],
   was_set |-> [o \in RuleObjects |-> FALSE],
   call |-> NoRuleCall]

\* rule.set_parent_module(module), called by a test.
SetParentModule(o, module) ==
  /\ \E r \in {set_parent_module(rule_object.rules[o], module)} :
       rule_object' =
         [rule_object EXCEPT
            !.rules[o] = r.rule,
            !.was_set[o] = TRUE,
            !.call = [op |-> "set_parent_module", object |-> o,
                      module |-> module, before |-> rule_object.rules[o],
                      again |-> rule_object.was_set[o], set |-> TRUE,
                      raised |-> r.raised, list |-> <<o>>,
                      table |-> rule_object.modules]]
  /\ UNCHANGED <<graphVars, deferredVars, runVars, gatherVars, callerVars,
                 task_executor, chain_ctx, project_modules>>

\* module.add_rule(rule): add_rules([rule])
AddRule(module, o) ==
  /\ \E name \in {rule_object.rules[o].name} :
       IF rule_object.modules[module][name] # "None"
         THEN rule_object' =
                [rule_object EXCEPT
                   !.call = [op |-> "add_rule", object |-> o, module |-> module,
                             before |-> rule_object.rules[o],
                             again |-> rule_object.was_set[o], set |-> FALSE,
                             raised |-> "KeyError", list |-> <<o>>,
                             table |-> rule_object.modules]]
         ELSE \E r \in {set_parent_module(rule_object.rules[o], module)} :
                rule_object' =
                  [rule_object EXCEPT
                     !.modules[module][name] = o,
                     !.rules[o] = r.rule,
                     !.was_set[o] = TRUE,
                     !.call = [op |-> "add_rule", object |-> o,
                               module |-> module,
                               before |-> rule_object.rules[o],
                               again |-> rule_object.was_set[o], set |-> TRUE,
                               raised |-> r.raised, list |-> <<o>>,
                               table |-> rule_object.modules]]
  /\ UNCHANGED <<graphVars, deferredVars, runVars, gatherVars, callerVars,
                 task_executor, chain_ctx, project_modules>>

\* The rule lists a test hands to add_rules: two Rule objects.
RuleLists == {<<o1, o2>> : o1 \in RuleObjects, o2 \in RuleObjects}

\* The second loop of add_rules from element i on: each rule is stored in the
\* table under its name and then handed to set_parent_module, whose
\* ValueError ends the loop.
RECURSIVE add_rules_store(_, _, _, _)
add_rules_store(st, module, rules, i) ==
  IF i > Len(rules) THEN st
  ELSE LET o == rules[i]
           r == set_parent_module(st.rules[o], module)
           next == [st EXCEPT
                      !.modules[module][st.rules[o].name] = o,
                      !.rules[o] = r.rule,
                      !.was_set[o] = TRUE,
                      !.call = [st.call EXCEPT
                                  !.object = o, !.before = st.rules[o],
                                  !.again = st.was_set[o], !.set = TRUE,
                                  !.raised = r.raised]]
       IN IF r.raised # "none" THEN next
          ELSE add_rules_store(next, module, rules, i + 1)

\* Module.add_rules(rules): the first loop raises KeyError if the table
\* already holds a rule under the name of one of the rules given.
add_rules(st, module, rules) ==
  LET begun == [st EXCEPT
                  !.call = [op |-> "add_rules", object |-> rules[1],
                            module |-> module, before |-> st.rules[rules[1]],
                            again |-> st.was_set[rules[1]], set |-> FALSE,
                            raised |-> "none", list |-> rules,
                            table |-> st.modules]]
  IN IF \E i \in DOMAIN rules :
          st.modules[module][st.rules[rules[i]].name] # "None"
       THEN [begun EXCEPT !.call.raised = "KeyError"]
       ELSE add_rules_store(begun, module, rules, 1)

\* module.add_rules(rules) with a list of two rules.
AddRules(module, rules) ==
  /\ rule_object' = add_rules(rule_object, module, rules)
  /\ UNCHANGED <<graphVars, deferredVars, runVars, gatherVars, callerVars,
                 task_executor, chain_ctx, project_modules>>

\* ------------------------------------------- project.py: the module table
\* The Module objects of a test, each known by its path attribute, and the
\* module paths a rule path may carry.  'x' is the path of no module.
ModuleObjects == {"a", "./a", "b"}

ModulePathStrings == ModuleObjects \cup {"x"}

\* os.path.normpath on these paths
normpath(path) == IF path = "./a" THEN "a" ELSE path

\* Project.add_module(module): add_modules([module]); the table is keyed by
\* module.path, and a Module object is named by its path here.
Project_add_module(modules, module) ==
  IF modules[module] # "None"
    THEN [modules |-> modules, raised |-> "KeyError"]
    ELSE [modules |-> [modules EXCEPT ![module] = module], raised |-> "none"]

\* StaticModuleResolver.resolve_module_path with no working path
Static_resolve_module_path(path) == normpath(path)

\* StaticModuleResolver.load_module: self.modules.get(normpath(full_path))
Static_load_module(resolver, full_path) ==
  IF normpath(full_path) \in DOMAIN resolver
    THEN resolver[normpath(full_path)] ELSE "None"

\* The rule paths handed to resolve_rule: whether the string has a colon, the
\* module path before the last colon, the rule name after it.
RulePathStrings ==
  {[rule_name |-> "", colon |-> FALSE, module_path |-> "a"],
   [rule_name |-> "r", colon |-> TRUE, module_path |-> ""]}
    \cup {[rule_name |-> n, colon |-> TRUE, module_path |-> m] :
            m \in ModulePathStrings, n \in {"r", "zz"}}

\* Module.get_rule(rule_name) of a module whose only rule is 'r'.
Module_get_rule(module, rule_name) ==
  IF rule_name = "r" THEN <<module, "r">> ELSE <<"None">>

\* The latest resolve_rule call: its argument, the full path it looked up,
\* what it raised and returned, and the project as it was before the call.
NoResolveCall ==
  [op |-> "none",
   rule_path |-> [rule_name |-> "", colon |-> FALSE, module_path |-> "a"],
   full_path |-> "None", raised |-> "none", rule |-> <<"None">>,
   modules |-> [k \in ModuleObjects |-> "None"],
   loads |-> 0, loaded |-> [k \in ModulePathStrings |-> "None"]]

\* No Project under test.
NoProject ==
  [modules |-> [k \in ModuleObjects |-> "None"],
   module_resolver |-> [k \in {"a", "b"} |-> "None"],
   loads |-> 0, loaded |-> [k \in ModulePathStrings |-> "None"],
   resolves |-> 0, call |-> NoResolveCall]

\* Project.resolve_rule(rule_path) with requesting_module=None and a
\* StaticModuleResolver (can_resolve_local is False).  loads counts the
\* load_module calls; loaded[full path] is the Module load_module returned
\* for that full path.
Project_resolve_rule(p, rule_path) ==
  LET begun == [p EXCEPT !.resolves = @ + 1,
                         !.call = [op |-> "resolve_rule", rule_path |-> rule_path,
                                   full_path |-> "None", raised |-> "none",
                                   rule |-> <<"None">>, modules |-> p.modules,
                                   loads |-> p.loads, loaded |-> p.loaded]]
  IN IF ~rule_path.colon THEN [begun EXCEPT !.call.raised = "NameError"]
     ELSE IF rule_path.module_path = "" THEN [begun EXCEPT !.call.raised = "KeyError"]
     ELSE
       LET full_path == Static_resolve_module_path(rule_path.module_path)
           found == [begun EXCEPT !.call.full_path = full_path]
           cached == IF full_path \in DOMAIN p.modules
                       THEN p.modules[full_path] ELSE "None"
       IN IF cached # "None"
            THEN [found EXCEPT
                    !.call.rule = Module_get_rule(cached, rule_path.rule_name)]
            ELSE
              LET module == Static_load_module(p.module_resolver, full_path)
                  tried == [found EXCEPT !.loads = @ + 1]
              IN IF module = "None"
                   THEN [tried EXCEPT !.call.raised = "IOError"]
                   ELSE LET added == Project_add_module(p.modules, module)
                            got == [tried EXCEPT !.loaded[full_path] = module,
                                                 !.modules = added.modules]
                        IN IF added.raised # "none"
                             THEN [got EXCEPT !.call.raised = added.raised]
                             ELSE [got EXCEPT
                                     !.call.rule =
                                       Module_get_rule(module, rule_path.rule_name)]

\* resolve_rule calls made on one Project in a run of the model.
MaxResolves == 3

\* project.resolve_rule(rule_path)
ResolveRule(rule_path) ==
  /\ project_modules.resolves < MaxResolves
  /\ project_modules' = Project_resolve_rule(project_modules, rule_path)
  /\ UNCHANGED <<graphVars, deferredVars, runVars, gatherVars, callerVars,
                 task_executor, rule_object, chain_ctx>>

\* ---------------------------------------------------------------- task.py
\* Tasks an executor is given in one run of the model.
MaxTasks == 2

\* What task.execute() does: return a value, raise an Exception, or raise
\* a BaseException that is no Exception (KeyboardInterrupt, SystemExit).
TaskOutcomes == {"returns", "Exception", "BaseException"}

\* The outcomes of the tasks handed to a pool.
PoolOutcomes == {"returns", "Exception"}

\* A submitted task: what execute() does, where the task is ("new": not yet
\* handed to the pool, "queued", "working", "finished": result sent back,
\* "handling": its callback runs, "handled", "stuck": its callback raised,
\* "dropped" by terminate(), "inline": run by the in-process executor), the
\* Deferred of run_task_async, the AsyncResult's ready flag, whether
\* _thunk_callback has counted the task as completed, and the rule whose
\* context made the task (None for a task of no rule).
NewTask(outcome) ==
  [outcome |-> outcome, state |-> "new", deferred |-> NewDeferred,
   ready |-> FALSE, called |-> FALSE, rule |-> None]

\* The thread that calls the executor: the method it is in, the statement
\* it is at and the method's locals; resolved_before tells whether the
\* Deferreds handed to wait() were all resolved when it was called.
NoMain ==
  [op |-> "idle", step |-> "", task |-> 0, tmp |-> 0, list |-> <<>>, i |-> 0,
   spin |-> <<>>, resolved_before |-> FALSE]

\* The pool's result-handler thread: the task whose callback it runs, the
\* statement of _thunk_callback it is at, the count it has read.
NoHandler == [task |-> 0, step |-> "", tmp |-> 0]

\* The latest call of an executor method and its outcome; after_close tells
\* whether close() had been called before it, resolved_before whether the
\* Deferreds of all tasks were resolved when close() was called.
NoTaskCall ==
  [op |-> "none", raised |-> "none", done |-> FALSE, task |-> 0,
   after_close |-> FALSE, tasks_before |-> 0, resolved_before |-> FALSE,
   graceful |-> TRUE]

\* TaskExecutor.__init__ / MultiProcessTaskExecutor.__init__
NewExecutor(kind, worker_count) ==
  [kind |-> kind, worker_count |-> worker_count, closed |-> FALSE,
   close_called |-> FALSE, running_count |-> 0, waiting_deferreds |-> {},
   pool |-> "RUN",
   tasks |-> <<>>, main |-> NoMain, handler |-> NoHandler, last |-> NoTaskCall]

NoExecutor == NewExecutor("none", 0)

\* TaskExecutor.has_any_running
has_any_running(e) == e.running_count > 0

\* Deferred.is_done of a Deferred handed to wait(): k is the task whose
\* Deferred it is, 0 for a Deferred of some other owner.
WaitedDone(e, foreign, k) ==
  IF k = 0 THEN is_done(foreign) ELSE is_done(e.tasks[k].deferred)

\* The call of method op that begins in executor e.
TaskCall(e, op) ==
  [NoTaskCall EXCEPT !.op = op, !.after_close = e.close_called,
                     !.tasks_before = Len(e.tasks)]

\* The call in progress returns, or raises.
Returns(e, raised) ==
  [e EXCEPT !.main = NoMain, !.last.done = TRUE, !.last.raised = raised]

\* run_task_async without the except clause.
InProcess_run_task_async_NoCatch(e, outcome) ==
  IF e.closed
    THEN Returns([e EXCEPT !.last = TaskCall(e, "run_task_async")], "RuntimeError")
    ELSE LET d == IF outcome = "returns"
                    THEN Deferred_callback(NewDeferred, <<Arg("result")>>).d
                    ELSE NewDeferred
             ran == [e EXCEPT
                       !.tasks = Append(@, [NewTask(outcome) EXCEPT
                                              !.state = "inline",
                                              !.deferred = d]),
                       !.last = TaskCall(e, "run_task_async")]
         IN IF outcome # "returns"
              THEN Returns(ran, outcome)
              ELSE Returns([ran EXCEPT !.last.task = Len(ran.tasks)], "none")

\* InProcessTaskExecutor.run_task_async(task)
InProcess_run_task_async(e, outcome) ==
  IF e.closed
    THEN Returns([e EXCEPT !.last = TaskCall(e, "run_task_async")], "RuntimeError")
    ELSE LET d == IF outcome = "returns"
                    THEN Deferred_callback(NewDeferred, <<Arg("result")>>).d
                    ELSE IF outcome = "Exception"
                      THEN Deferred_errback(NewDeferred,
                                            <<Kw("exception", Exc("e"))>>).d
                      ELSE NewDeferred
             ran == [e EXCEPT
                       !.tasks = Append(@, [NewTask(outcome) EXCEPT
                                              !.state = "inline",
                                              !.deferred = d]),
                       !.last = TaskCall(e, "run_task_async")]
         IN IF outcome = "BaseException"
              THEN Returns(ran, "BaseException")
              ELSE Returns([ran EXCEPT !.last.task = Len(ran.tasks)], "none")

\* close() that leaves the executor open.
InProcess_close_Open(e, graceful) ==
  IF e.closed
    THEN Returns([e EXCEPT !.last = TaskCall(e, "close")], "RuntimeError")
    ELSE Returns([e EXCEPT !.close_called = TRUE,
                           !.running_count = 0,
                           !.last = [TaskCall(e, "close") EXCEPT
                                       !.graceful = graceful]],
                 "none")

\* InProcessTaskExecutor.close(graceful)
InProcess_close(e, graceful) ==
  IF e.closed
    THEN Returns([e EXCEPT !.last = TaskCall(e, "close")], "RuntimeError")
    ELSE Returns([e EXCEPT !.closed = TRUE,
                           !.close_called = TRUE,
                           !.running_count = 0,
                           !.last = [TaskCall(e, "close") EXCEPT
                                       !.graceful = graceful]],
                 "none")

\* The lists of Deferreds a caller waits on: Deferreds of tasks submitted
\* so far and a Deferred of another owner (0); a single Deferred is a list
\* of one.
WaitLists(e) ==
  {l \in UNION {[1..n -> 0..Len(e.tasks)] : n \in 1..2} :
     \A i, j \in DOMAIN l : i # j => l[i] # l[j]}

\* The in-process executor: every method runs to its end in one step.
InProcessRunTaskAsync(outcome) ==
  /\ task_executor.kind = "in_process"
  /\ task_executor.closed \/ Len(task_executor.tasks) < MaxTasks
  /\ task_executor' = InProcess_run_task_async(task_executor, outcome)
  /\ UNCHANGED <<graphVars, deferredVars, runVars, gatherVars, callerVars,
                 rule_object, chain_ctx, project_modules>>

\* InProcessTaskExecutor.wait(deferreds): pass
InProcessWait(list) ==
  /\ task_executor.kind = "in_process"
  /\ task_executor' =
       Returns([task_executor EXCEPT
                  !.last = TaskCall(task_executor, "wait")], "none")
  /\ UNCHANGED <<graphVars, deferredVars, runVars, gatherVars, callerVars,
                 rule_object, chain_ctx, project_modules>>

InProcessClose(graceful) ==
  /\ task_executor.kind = "in_process"
  /\ task_executor' = InProcess_close(task_executor, graceful)
  /\ UNCHANGED <<graphVars, deferredVars, runVars, gatherVars, callerVars,
                 rule_object, chain_ctx, project_modules>>

\* The owner of the Deferred that is not the executor's resolves it.
ForeignResolves ==
  /\ task_executor.kind # "none"
  /\ ~is_done(deferred)
  /\ deferred' = Deferred_callback(deferred, <<>>).d
  /\ UNCHANGED <<calls, registered, regs, last_op>>
  /\ UNCHANGED <<graphVars, runVars, gatherVars, callerVars, taskVars>>

\* ------------------------------------------ MultiProcessTaskExecutor
\* Each action is one statement of a method, or of _thunk_callback, so that
\* the calling thread and the pool's result-handler thread interleave as
\* the interpreter lets them: the executor takes no lock.
PoolExecutor == task_executor.kind = "multi_process"

PoolUnchanged ==
  UNCHANGED <<graphVars, deferredVars, runVars, gatherVars, callerVars,
              rule_object, chain_ctx, project_modules>>

\* run_task_async: the test of closed, Deferred(), and the read of
\* self._running_count in "self._running_count + 1".
PoolRunTaskAsync(outcome) ==
  /\ PoolExecutor
  /\ task_executor.main.op = "idle"
  /\ IF task_executor.closed
       THEN task_executor' =
              Returns([task_executor EXCEPT
                         !.last = TaskCall(task_executor, "run_task_async")],
                      "RuntimeError")
       ELSE /\ Len(task_executor.tasks) < MaxTasks
            /\ task_executor' =
                 [task_executor EXCEPT
                    !.tasks = Append(@, NewTask(outcome)),
                    !.main = [NoMain EXCEPT
                                !.op = "run_task_async", !.step = "store",
                                !.task = Len(task_executor.tasks) + 1,
                                !.tmp = task_executor.running_count],
                    !.last = TaskCall(task_executor, "run_task_async")]
  /\ PoolUnchanged

\* run_task_async: the store of self._running_count, and apply_async.
PoolStoreCount ==
  /\ PoolExecutor
  /\ task_executor.main.op = "run_task_async"
  /\ task_executor.main.step = "store"
  /\ task_executor' =
       [task_executor EXCEPT
          !.running_count = task_executor.main.tmp + 1,
          !.tasks[task_executor.main.task].state = "queued",
          !.main.step = "register"]
  /\ PoolUnchanged

\* run_task_async: self._waiting_deferreds[deferred] = async_result; return
PoolRegister ==
  /\ PoolExecutor
  /\ task_executor.main.op = "run_task_async"
  /\ task_executor.main.step = "register"
  /\ task_executor' =
       Returns([task_executor EXCEPT
                  !.waiting_deferreds = @ \cup {task_executor.main.task},
                  !.last.task = task_executor.main.task],
               "none")
  /\ PoolUnchanged

\* The tasks that occupy a worker process.
Working(e) == {i \in DOMAIN e.tasks : e.tasks[i].state = "working"}

\* A free worker process takes the oldest queued task.
WorkerTakes(i) ==
  /\ PoolExecutor
  /\ task_executor.pool \in {"RUN", "CLOSE"}
  /\ task_executor.tasks[i].state = "queued"
  /\ \A j \in 1..(i - 1) : task_executor.tasks[j].state # "queued"
  /\ Cardinality(Working(task_executor)) < task_executor.worker_count
  /\ task_executor' = [task_executor EXCEPT !.tasks[i].state = "working"]
  /\ PoolUnchanged

\* _task_thunk returns in the worker process; the result is sent back.
WorkerFinishes(i) ==
  /\ PoolExecutor
  /\ task_executor.pool \in {"RUN", "CLOSE"}
  /\ task_executor.tasks[i].state = "working"
  /\ task_executor' = [task_executor EXCEPT !.tasks[i].state = "finished"]
  /\ PoolUnchanged

\* A worker process takes the oldest queued task, runs _task_thunk and sends
\* the result back: the two steps above in one, for a run in which the
\* number of workers plays no part.
WorkerRuns(i) ==
  /\ PoolExecutor
  /\ task_executor.pool \in {"RUN", "CLOSE"}
  /\ task_executor.tasks[i].state = "queued"
  /\ \A j \in 1..(i - 1) : task_executor.tasks[j].state # "queued"
  /\ task_executor' = [task_executor EXCEPT !.tasks[i].state = "finished"]
  /\ PoolUnchanged

\* The result handler takes a result and calls _thunk_callback, which reads
\* self._running_count in "self._running_count - 1".
HandlerReadCount(i) ==
  /\ PoolExecutor
  /\ task_executor.pool # "JOINED"
  /\ task_executor.handler.task = 0
  /\ task_executor.tasks[i].state = "finished"
  /\ task_executor' =
       [task_executor EXCEPT
          !.tasks[i].state = "handling",
          !.handler = [task |-> i, step |-> "store",
                       tmp |-> task_executor.running_count]]
  /\ PoolUnchanged

\* _thunk_callback: the store of self._running_count.
HandlerStoreCount ==
  /\ PoolExecutor
  /\ task_executor.handler.step = "store"
  /\ task_executor' =
       [task_executor EXCEPT
          !.running_count = task_executor.handler.tmp - 1,
          !.tasks[task_executor.handler.task].called = TRUE,
          !.handler.step = "del"]
  /\ PoolUnchanged

\* _thunk_callback: del self._waiting_deferreds[deferred]. The KeyError of a
\* missing key ends the callback: the result handler goes on, the
\* AsyncResult is never set ready and the Deferred is never resolved.
HandlerDel ==
  /\ PoolExecutor
  /\ task_executor.handler.step = "del"
  /\ \E i \in {task_executor.handler.task} :
       IF i \in task_executor.waiting_deferreds
         THEN task_executor' =
                [task_executor EXCEPT !.waiting_deferreds = @ \ {i},
                                      !.handler.step = "resolve"]
         ELSE task_executor' =
                [task_executor EXCEPT !.tasks[i].state = "stuck",
                                      !.handler = NoHandler]
  /\ PoolUnchanged

\* _thunk_callback: deferred.errback(exception=args[0]) when the thunk
\* returned an Exception, deferred.callback(*args) otherwise.
thunk_resolve(task) ==
  IF task.outcome = "Exception"
    THEN Deferred_errback(task.deferred, <<Kw("exception", Exc("e"))>>).d
    ELSE Deferred_callback(task.deferred, <<Arg("result")>>).d

HandlerResolve ==
  /\ PoolExecutor
  /\ task_executor.handler.step = "resolve"
  /\ \E i \in {task_executor.handler.task} :
       task_executor' =
         [task_executor EXCEPT
            !.tasks[i].deferred = thunk_resolve(task_executor.tasks[i]),
            !.handler.step = "ready"]
  /\ PoolUnchanged

\* The callback has returned: the AsyncResult becomes ready.
HandlerReady ==
  /\ PoolExecutor
  /\ task_executor.handler.step = "ready"
  /\ \E i \in {task_executor.handler.task} :
       task_executor' =
         [task_executor EXCEPT !.tasks[i].ready = TRUE,
                               !.tasks[i].state = "handled",
                               !.handler = NoHandler]
  /\ PoolUnchanged

\* An AsyncResult.wait() that returns at once.
AsyncResult_wait_NoBlock(e, k) == TRUE

\* async_result.wait() returns once the AsyncResult is ready.
AsyncResult_wait(e, k) == e.tasks[k].ready

\* wait(deferreds) begins: deferreds becomes a list, spin_deferreds = [].
PoolWait(list) ==
  /\ PoolExecutor
  /\ task_executor.main.op = "idle"
  /\ task_executor' =
       [task_executor EXCEPT
          !.main = [NoMain EXCEPT
                      !.op = "wait", !.step = "is_done", !.list = list, !.i = 1,
                      !.resolved_before =
                        \A i \in DOMAIN list :
                          WaitedDone(task_executor, deferred, list[i])],
          !.last = TaskCall(task_executor, "wait")]
  /\ PoolUnchanged

\* wait: "for deferred in deferreds: if deferred.is_done(): continue"; at
\* the end of the list, on to the spin loop.
PoolWaitIsDone ==
  /\ PoolExecutor
  /\ task_executor.main.op = "wait"
  /\ task_executor.main.step = "is_done"
  /\ \E m \in {task_executor.main} :
       task_executor' =
         IF m.i > Len(m.list)
           THEN [task_executor EXCEPT !.main.step = "spin", !.main.i = 1]
           ELSE IF WaitedDone(task_executor, deferred, m.list[m.i])
             THEN [task_executor EXCEPT !.main.i = m.i + 1]
             ELSE [task_executor EXCEPT !.main.step = "has_key"]
  /\ PoolUnchanged

\* wait: "if not self._waiting_deferreds.has_key(deferred)"
PoolWaitHasKey ==
  /\ PoolExecutor
  /\ task_executor.main.op = "wait"
  /\ task_executor.main.step = "has_key"
  /\ \E m \in {task_executor.main} :
       task_executor' =
         IF m.list[m.i] \notin task_executor.waiting_deferreds
           THEN [task_executor EXCEPT !.main.spin = Append(@, m.list[m.i]),
                                      !.main.i = m.i + 1,
                                      !.main.step = "is_done"]
           ELSE [task_executor EXCEPT !.main.step = "fetch"]
  /\ PoolUnchanged

\* wait: "async_result = self._waiting_deferreds[deferred]"
PoolWaitFetch ==
  /\ PoolExecutor
  /\ task_executor.main.op = "wait"
  /\ task_executor.main.step = "fetch"
  /\ \E m \in {task_executor.main} :
       task_executor' =
         IF m.list[m.i] \in task_executor.waiting_deferreds
           THEN [task_executor EXCEPT !.main.step = "block"]
           ELSE Returns(task_executor, "KeyError")
  /\ PoolUnchanged

\* wait: "async_result.wait()"
PoolWaitBlock ==
  /\ PoolExecutor
  /\ task_executor.main.op = "wait"
  /\ task_executor.main.step = "block"
  /\ \E m \in {task_executor.main} :
       /\ AsyncResult_wait(task_executor, m.list[m.i])
       /\ task_executor' = [task_executor EXCEPT !.main.i = m.i + 1,
                                                 !.main.step = "is_done"]
  /\ PoolUnchanged

\* wait: "for deferred in spin_deferreds: while not deferred.is_done():
\* time.sleep(0.01)", and the return.
PoolWaitSpin ==
  /\ PoolExecutor
  /\ task_executor.main.op = "wait"
  /\ task_executor.main.step = "spin"
  /\ \E m \in {task_executor.main} :
       IF m.i > Len(m.spin)
         THEN task_executor' = Returns(task_executor, "none")
         ELSE /\ WaitedDone(task_executor, deferred, m.spin[m.i])
              /\ task_executor' = [task_executor EXCEPT !.main.i = m.i + 1]
  /\ PoolUnchanged

\* close(graceful): the test of closed, self.closed = True, and
\* self._pool.close() or self._pool.terminate().
PoolClose(graceful) ==
  /\ PoolExecutor
  /\ task_executor.main.op = "idle"
  /\ task_executor' =
       IF task_executor.closed
         THEN Returns([task_executor EXCEPT
                         !.last = TaskCall(task_executor, "close")],
                      "RuntimeError")
         ELSE [task_executor EXCEPT
                 !.closed = TRUE,
                 !.close_called = TRUE,
                 !.pool = IF graceful THEN "CLOSE" ELSE "TERMINATE",
                 !.main = [NoMain EXCEPT !.op = "close", !.step = "join"],
                 !.last = [TaskCall(task_executor, "close") EXCEPT
                             !.graceful = graceful,
                             !.resolved_before =
                               \A i \in DOMAIN task_executor.tasks :
                                 is_done(task_executor.tasks[i].deferred)]]
  /\ PoolUnchanged

\* A join() that waits for the running callback only.
Pool_join_NoDrain(e) == e.handler.task = 0

\* self._pool.join() returns: the result handler has ended, which after
\* close() it does once every submitted task has had its result set, and
\* after terminate() as soon as the callback it is in has returned.
Pool_join(e) ==
  /\ e.handler.task = 0
  /\ e.pool = "CLOSE" => \A i \in DOMAIN e.tasks : e.tasks[i].state = "handled"

\* close: self._pool.join(), self._running_count = 0,
\* self._waiting_deferreds.clear(), and the return.
PoolJoin ==
  /\ PoolExecutor
  /\ task_executor.main.op = "close"
  /\ Pool_join(task_executor)
  /\ task_executor' =
       Returns([task_executor EXCEPT
                  !.pool = "JOINED",
                  !.tasks = [i \in DOMAIN @ |->
                               IF @[i].state \in {"handled", "stuck"} THEN @[i]
                               ELSE [@[i] EXCEPT !.state = "dropped"]],
                  !.running_count = 0,
                  !.waiting_deferreds = {}],
               "none")
  /\ PoolUnchanged

\* ------------------------------------------------------ RuleContext._chain
\* A RuleContext inside begin(): status RUNNING, its Deferred pending, no
\* exception; chained tells whether _chain has been called.
NoChain ==
  [chained |-> FALSE, status |-> RUNNING, deferred |-> NewDeferred,
   exception |-> Arg("None")]

\* bool(value) of an argument value
Truthy(a) == a # Arg("None")

\* kwargs.get(key, None)
dict_get(kwargs, key) ==
  IF \E i \in DOMAIN kwargs : kwargs[i].key = key
    THEN [kwargs[CHOOSE i \in DOMAIN kwargs : kwargs[i].key = key]
            EXCEPT !.key = ""]
    ELSE Arg("None")

\* RuleContext._fail(exception=exception)
fail_exception(ctx, exception) ==
  [ctx EXCEPT !.status = FAILED,
              !.exception = exception,
              !.deferred = IF Truthy(exception)
                             THEN Deferred_errback(@, <<Kw("exception", exception)>>).d
                             ELSE Deferred_errback(@, <<>>).d]

RECURSIVE chain_exception_Last(_, _, _)
\* The scan of _errback without its break statements.
chain_exception_Last(tuples, i, exception) ==
  IF i > Len(tuples) THEN exception
  ELSE IF tuples[i][1] THEN chain_exception_Last(tuples, i + 1, exception)
  ELSE IF Len(tuples[i][2]) > 0 /\ IsException(tuples[i][2][1])
    THEN chain_exception_Last(tuples, i + 1, tuples[i][2][1])
    ELSE chain_exception_Last(tuples, i + 1, dict_get(tuples[i][3], "exception"))

RECURSIVE chain_exception(_, _, _)
\* _chain_errback._errback: the loop over args[0], the (success, args,
\* kwargs) tuples of the gather, from entry i on.
chain_exception(tuples, i, exception) ==
  IF i > Len(tuples) THEN exception
  ELSE IF tuples[i][1] THEN chain_exception(tuples, i + 1, exception)
  ELSE IF Len(tuples[i][2]) > 0 /\ IsException(tuples[i][2][1])
    THEN tuples[i][2][1]
    ELSE IF Truthy(dict_get(tuples[i][3], "exception"))
      THEN dict_get(tuples[i][3], "exception")
      ELSE chain_exception(tuples, i + 1, dict_get(tuples[i][3], "exception"))

\* The listener of gather_deferred that _chain registered runs: _callback
\* when the gather succeeded, _errback (with the result tuples) otherwise.
chain_fire(ctx, gather_deferred) ==
  IF ~gather_deferred.failed THEN succeed(ctx)
  ELSE IF Len(Positional(gather_deferred.args)) = 0
    THEN fail_exception(ctx, Arg("None"))
    ELSE fail_exception(ctx, chain_exception(gather_deferred.args[1].value, 1,
                                             Arg("None")))

\* The exception input n of a chain fails with.
ExcName(n) == "e" \o ToString(n)

\* What the owner of input n resolves it with: callback(), or errback with
\* nothing, a value that is no Exception, an Exception or exception=e.
ChainResolutions(n) ==
  {[ok |-> TRUE, args |-> <<>>],
   [ok |-> FALSE, args |-> <<>>],
   [ok |-> FALSE, args |-> <<Arg("v")>>],
   [ok |-> FALSE, args |-> <<Exc(ExcName(n))>>],
   [ok |-> FALSE, args |-> <<Kw("exception", Exc(ExcName(n)))>>]}

\* The lists handed to _chain: each Deferred pending, or already resolved.
ChainLists ==
  UNION {{l \in [1..n -> {NewDeferred}
                            \cup {Deferred_callback(NewDeferred, <<>>).d}
                            \cup {Deferred_errback(NewDeferred, <<Exc(ExcName(k))>>).d
                                    : k \in 1..n}] :
            \A k \in 1..n : l[k].failed => l[k].args = <<Exc(ExcName(k))>>}
           : n \in 0..MaxDeferreds}

\* self._chain(deferreds), called from begin()
Chain(ds) ==
  /\ ~chain_ctx.chained
  /\ ~gather.called
  /\ errback_if_any_fail' = TRUE
  /\ \E r \in {gather_deferreds(ds, TRUE)} :
       /\ deferreds' = r.deferreds
       /\ IF is_done(r.gather.gather_deferred)
            THEN /\ gather' = r.gather
                 /\ chain_ctx' = chain_fire([chain_ctx EXCEPT !.chained = TRUE],
                                            r.gather.gather_deferred)
            ELSE /\ gather' =
                      [r.gather EXCEPT
                         !.gather_deferred =
                           Deferred_add_errback_fn(
                             Deferred_add_callback_fn(@, "_callback").d,
                             "_errback").d]
                 /\ chain_ctx' = [chain_ctx EXCEPT !.chained = TRUE]
  /\ UNCHANGED <<graphVars, deferredVars, runVars, callerVars, task_executor,
                 rule_object, project_modules>>

\* Input n of the chain is resolved by its owner; the gather that this
\* completes calls the listener of _chain.
ChainResolveInput(n, ok, args) ==
  /\ chain_ctx.chained
  /\ n \in DOMAIN deferreds
  /\ ~deferreds[n].is_done
  /\ \E out \in {IF ok THEN Deferred_callback(deferreds[n], args)
                        ELSE Deferred_errback(deferreds[n], args)} :
       /\ deferreds' = [deferreds EXCEPT ![n] = out.d]
       /\ \E g \in {FireCaptures([gather EXCEPT !.order = Append(@, n)],
                                 out.fired, args, errback_if_any_fail)} :
            /\ gather' = g
            /\ chain_ctx' =
                 IF is_done(g.gather_deferred) /\ ~is_done(gather.gather_deferred)
                   THEN chain_fire(chain_ctx, g.gather_deferred)
                   ELSE chain_ctx
  /\ UNCHANGED <<errback_if_any_fail, graphVars, deferredVars, runVars,
                 callerVars, task_executor, rule_object, project_modules>>

\* ------------------------------------------ the objects that stand alone
IdleTasks ==
  /\ task_executor = NoExecutor
  /\ rule_object = NewRuleObjects
  /\ chain_ctx = NoChain
  /\ project_modules = NoProject

\* No project, no graph, no build: the state around an object under test.
IdleBuild ==
  /\ project = [r \in Rules |-> {}]
  /\ rule_nodes = {}
  /\ graph_edges = {}
  /\ last_call = NoCall
  /\ stop_on_error = FALSE
  /\ IdleDeferred
  /\ IdleGather
  /\ IdleRun
  /\ caller = NoCaller
  /\ result = NoResult
  /\ threads = {}

\* Rules and modules: Rule(name), Module(path), then add_rule and
\* set_parent_module in any order.
InitModule ==
  /\ IdleBuild
  /\ IdleTasks

NextModule ==
  \/ \E o \in RuleObjects : \E m \in ModulePaths : SetParentModule(o, m)
  \/ \E o \in RuleObjects : \E m \in ModulePaths : AddRule(m, o)
  \/ \E rules \in RuleLists : \E m \in ModulePaths : AddRules(m, rules)

\* Modules filled through add_rule and add_rules alone.
NextAddRules ==
  \/ \E o \in RuleObjects : \E m \in ModulePaths : AddRule(m, o)
  \/ \E rules \in RuleLists : \E m \in ModulePaths : AddRules(m, rules)

\* Project(module_resolver=StaticModuleResolver(modules)): the resolver holds
\* each module under the normal form of its path; the project's table is
\* empty.
InitResolve ==
  /\ IdleBuild
  /\ task_executor = NoExecutor
  /\ rule_object = NewRuleObjects
  /\ chain_ctx = NoChain
  /\ \E resolver \in [{"a", "b"} -> ModuleObjects \cup {"None"}] :
       /\ \A k \in DOMAIN resolver :
            resolver[k] # "None" => normpath(resolver[k]) = k
       /\ project_modules = [NoProject EXCEPT !.module_resolver = resolver]

NextResolve == \E rule_path \in RulePathStrings : ResolveRule(rule_path)

\* A RuleContext that chains its completion on a list of Deferreds.
InitChain ==
  /\ IdleBuild
  /\ IdleTasks

NextChain ==
  \/ \E ds \in ChainLists : Chain(ds)
  \/ \E n \in 1..MaxDeferreds : \E r \in ChainResolutions(n) :
       ChainResolveInput(n, r.ok, r.args)

\* A task executor and the threads around it: the thread that calls its
\* methods, the pool's workers and the pool's result handler.
InitExecutor ==
  /\ IdleBuild
  /\ task_executor \in {NewExecutor("in_process", 0),
                         NewExecutor("multi_process", 2)}
  /\ rule_object = NewRuleObjects
  /\ chain_ctx = NoChain
  /\ project_modules = NoProject

NextExecutor ==
  \/ \E outcome \in TaskOutcomes : InProcessRunTaskAsync(outcome)
  \/ \E list \in WaitLists(task_executor) : InProcessWait(list)
  \/ \E graceful \in BOOLEAN : InProcessClose(graceful)
  \/ ForeignResolves
  \/ \E outcome \in PoolOutcomes : PoolRunTaskAsync(outcome)
  \/ PoolStoreCount
  \/ PoolRegister
  \/ \E i \in DOMAIN task_executor.tasks : WorkerRuns(i)
  \/ \E i \in DOMAIN task_executor.tasks : HandlerReadCount(i)
  \/ HandlerStoreCount
  \/ HandlerDel
  \/ HandlerResolve
  \/ HandlerReady
  \/ \E list \in WaitLists(task_executor) : PoolWait(list)
  \/ PoolWaitIsDone
  \/ PoolWaitHasKey
  \/ PoolWaitFetch
  \/ PoolWaitBlock
  \/ PoolWaitSpin
  \/ \E graceful \in BOOLEAN : PoolClose(graceful)
  \/ PoolJoin

\* ------------------------------------------------ the rule graph machine
InitGraph ==
  /\ project \in Projects
  /\ rule_nodes = {}
  /\ graph_edges = {}
  /\ last_call = NoCall
  /\ IdleDeferred
  /\ IdleGather
  /\ IdleRun
  /\ IdleCaller
  /\ IdleTasks
  /\ stop_on_error = FALSE

\* RuleGraph.add_rules_from_module(module)
AddRulesFromModule(m, ord) ==
  \E names \in {SelectSeq(ord, LAMBDA k : k.mod = m /\ k.name \in ModuleRules(m))} :
  \E rule_paths \in {[i \in DOMAIN names |-> RuleRef(m, names[i].name)]} :
  \E g \in {ensure_rules_present(Graph(rule_nodes, graph_edges), rule_paths, m, ord)} :
     /\ rule_nodes' = g.nodes
     /\ graph_edges' = g.edges
     /\ last_call' = [op |-> "add", targets |-> rule_paths, err |-> g.err,
                      seq |-> <<>>]
     /\ UNCHANGED <<project, deferredVars, runVars, gatherVars, callerVars, taskVars>>

\* RuleGraph.calculate_rule_sequence(target_rule_paths)
CalculateRuleSequence(targets, ord) ==
  \E r \in {calculate_rule_sequence(Graph(rule_nodes, graph_edges), targets, ord)} :
     /\ rule_nodes' = r.g.nodes
     /\ graph_edges' = r.g.edges
     /\ \E s \in r.seqs :
          last_call' = [op |-> "calc", targets |-> targets, err |-> r.err,
                        seq |-> s]
     /\ UNCHANGED <<project, deferredVars, runVars, gatherVars, callerVars, taskVars>>

NextGraph ==
  \/ \E m \in ModulePaths, ord \in Orders : AddRulesFromModule(m, ord)
  \/ \E t \in TargetLists, ord \in Orders : CalculateRuleSequence(t, ord)

vars == <<graphVars, deferredVars, runVars, gatherVars, callerVars, taskVars>>

SpecGraph == InitGraph /\ [][NextGraph]_vars

InitDeferred ==
  /\ project = [r \in Rules |-> {}]
  /\ rule_nodes = {}
  /\ graph_edges = {}
  /\ last_call = NoCall
  /\ IdleDeferred
  /\ IdleGather
  /\ IdleRun
  /\ IdleCaller
  /\ IdleTasks
  /\ stop_on_error = FALSE

NextDeferred ==
  \/ \E args \in ArgValues : Callback(args)
  \/ \E args \in ArgValues : Errback(args)
  \/ \E fn \in Listeners : AddCallbackFn(fn)
  \/ \E fn \in Listeners : AddErrbackFn(fn)

SpecDeferred == InitDeferred /\ [][NextDeferred]_vars

InitGather == InitDeferred

NextGather ==
  \/ \E ds \in InputLists, flag \in BOOLEAN : GatherDeferreds(ds, flag)
  \/ \E n \in 1..MaxDeferreds, ok \in BOOLEAN, args \in ArgValues :
       ResolveInput(n, ok, args)

SpecGather == InitGather /\ [][NextGather]_vars

\* ----------------------------------------------- the execute_async machine
\* Runs are made on the projects whose references all name a rule: a
\* reference that names none ends execute_async in calculate_rule_sequence,
\* before any rule runs.
InitRun ==
  /\ project \in {p \in Projects : \A r \in Rules : DanglingRef \notin p[r]}
  /\ stop_on_error \in BOOLEAN
  /\ rule_nodes = {}
  /\ graph_edges = {}
  /\ last_call = NoCall
  /\ IdleDeferred
  /\ IdleGather
  /\ IdleRun
  /\ IdleCaller
  /\ IdleTasks

\* The exception raised by the target validation of execute_async.
\* What resolving one target of execute_async raises: the exception of
\* resolve_rule, or KeyError when it returns None.
TargetError(target) ==
  IF resolve_rule(target, "").err # "none" THEN resolve_rule(target, "").err
  ELSE IF resolve_rule(target, "").rule = None THEN "KeyError"
  ELSE "none"

\* The exception raised by the target validation of execute_async.
ValidateTargets(targets) ==
  IF \E i \in DOMAIN targets : ~is_rule_path(targets[i]) THEN "NameError"
  ELSE IF \E i \in DOMAIN targets : TargetError(targets[i]) # "none"
    THEN TargetError(targets[CHOOSE i \in DOMAIN targets :
           /\ TargetError(targets[i]) # "none"
           /\ \A j \in 1..(i - 1) : TargetError(targets[j]) = "none"])
  ELSE "none"

Range(seq) == {seq[i] : i \in DOMAIN seq}

\* BuildContext.execute_async up to the kick-off loop: the targets are
\* validated, the rule sequence is calculated and the closure variables of
\* the run are created.  The rules of the sequence that have no behaviour
\* yet get one.
StartRun(targets, ord) ==
  /\ run_targets' = targets
  /\ IF ValidateTargets(targets) # "none"
       THEN /\ run' = ValidateTargets(targets)
            /\ UNCHANGED <<rule_nodes, graph_edges, rule_sequence, kick_left,
                           remaining_rules, behaviour, in_flight_rules,
                           any_failed, main_deferred>>
       ELSE \E r \in {calculate_rule_sequence(Graph(rule_nodes, graph_edges),
                                               targets, ord)} :
              /\ rule_nodes' = r.g.nodes
              /\ graph_edges' = r.g.edges
              /\ any_failed' = FALSE
              /\ main_deferred' = NewDeferred
              /\ in_flight_rules' = <<>>
              /\ \E s \in r.seqs :
                   /\ rule_sequence' = s
                   /\ remaining_rules' = s
                   /\ kick_left' = Len(s)
                   /\ behaviour' \in {f @@ behaviour :
                                        f \in [Range(s) \ DOMAIN behaviour
                                                 -> Behaviours]}
                   /\ run' = IF r.err # "none" THEN r.err
                             ELSE IF Len(s) = 0 THEN "returned" ELSE "kickoff"
  /\ UNCHANGED <<project, last_call, deferredVars, gatherVars, stop_on_error,
                 rule_contexts, history>>

\* The first execute_async call made on the BuildContext.
ExecuteAsync(targets, ord) ==
  /\ run = "idle"
  /\ StartRun(targets, ord)
  /\ UNCHANGED <<callerVars, taskVars>>

\* One _pump() of the kick-off loop that ends execute_async.
KickoffPump ==
  /\ run = "kickoff"
  /\ kick_left > 0
  /\ \E st \in {pump(RunState, TRUE, behaviour)} :
       /\ SetRunState(st)
       /\ kick_left' = kick_left - 1
       /\ run' = IF st.err # "none" THEN st.err
                 ELSE IF kick_left = 1 THEN "returned" ELSE "kickoff"
  /\ UNCHANGED <<graphVars, deferredVars, gatherVars, callerVars, taskVars, stop_on_error,
                 behaviour, run_targets, rule_sequence>>

\* The work of a running rule ends: its context calls _succeed() or _fail(),
\* which resolves the rule's Deferred and runs its listeners.
RuleCompletes(rule, ok) ==
  /\ run \in {"kickoff", "returned"}
  /\ rule \in DOMAIN rule_contexts
  /\ rule_contexts[rule].status = RUNNING
  /\ \E o \in {IF ok THEN Deferred_callback(rule_contexts[rule].deferred, <<>>)
                      ELSE Deferred_errback(rule_contexts[rule].deferred, <<>>)} :
     \E st \in {Fire([RunState EXCEPT
                        !.ctxs[rule] = IF ok THEN succeed(@) ELSE fail(@)],
                     o.fired, rule, behaviour)} :
       /\ SetRunState(st)
       /\ run' = IF st.err # "none" THEN st.err ELSE run
  /\ UNCHANGED <<graphVars, deferredVars, gatherVars, callerVars, taskVars, stop_on_error,
                 behaviour, run_targets, rule_sequence, kick_left>>

NextRun ==
  \/ \E t \in RunTargetLists, ord \in Orders : ExecuteAsync(t, ord)
  \/ KickoffPump
  \/ \E rule \in Rules, ok \in BOOLEAN : RuleCompletes(rule, ok)

SpecRun == InitRun /\ [][NextRun]_vars

\* The kick-off loop runs to its end and the work of every started rule
\* ends: a step that can be taken stays possible until it is taken, so the
\* run goes on for as long as some step is possible.
FairSpecRun == SpecRun /\ WF_vars(NextRun)

\* ------------------------------------------------ the execute_sync machine
\* execute_sync after wait(): the two listeners it registers on the run
\* Deferred set result[0]; the assertion fails when neither was invoked.
execute_sync_result(d) ==
  The({The({[d |-> o2.d,
             value |-> IF o1.fired # <<>> THEN "True"
                       ELSE IF o2.fired # <<>> THEN "False"
                       ELSE "AssertionError"]
            : o2 \in {Deferred_add_errback_fn(o1.d, "_errback")}})
       : o1 \in {Deferred_add_callback_fn(d, "_callback")}})

\* Builds with execute_sync are made on the projects in which m2:a depends
\* on nothing, with either executor.
InitSync ==
  /\ project \in {p \in Projects : p[Rule("m2", "a")] = {}}
  /\ stop_on_error \in BOOLEAN
  /\ rule_nodes = {}
  /\ graph_edges = {}
  /\ last_call = NoCall
  /\ IdleDeferred
  /\ IdleGather
  /\ IdleRun
  /\ caller \in {[NoCaller EXCEPT !.executor = e] : e \in Executors}
  /\ result = NoResult
  /\ threads = {}
  /\ IdleTasks

\* BuildContext.execute_sync calls execute_async.
ExecuteSync(targets, ord) ==
  /\ run = "idle"
  /\ caller.sync = "none"
  /\ StartRun(targets, ord)
  /\ caller' = [caller EXCEPT !.sync = "waiting", !.calls = @ + 1]
  /\ UNCHANGED <<result, threads, taskVars>>

\* BuildContext.execute_sync after execute_async: an exception of
\* execute_async is passed on; otherwise wait() lets it go on and it returns
\* result[0] or fails its assertion.
SyncReturns ==
  /\ caller.sync = "waiting"
  /\ run \notin {"idle", "kickoff"}
  /\ IF run # "returned"
       THEN /\ caller' = [caller EXCEPT !.sync = run]
            /\ UNCHANGED main_deferred
       ELSE /\ wait(caller.executor, main_deferred)
            /\ \E o \in {execute_sync_result(main_deferred)} :
                 /\ main_deferred' = o.d
                 /\ caller' = [caller EXCEPT
                      !.sync = o.value,
                      !.statuses = [r \in DOMAIN rule_contexts |->
                                      rule_contexts[r].status]]
  /\ UNCHANGED <<graphVars, deferredVars, gatherVars, taskVars, result, threads,
                 stop_on_error, behaviour, run, run_targets, rule_sequence,
                 kick_left, remaining_rules, in_flight_rules, any_failed,
                 rule_contexts, history>>

NextSync ==
  \/ \E t \in TargetLists, ord \in Orders : ExecuteSync(t, ord)
  \/ KickoffPump
  \/ \E rule \in Rules, ok \in BOOLEAN : RuleCompletes(rule, ok)
  \/ SyncReturns

SpecSync == InitSync /\ [][NextSync]_vars

\* -------------------------------------------- the get_rule_results machine
\* Results are asked for during builds of the projects in which m2:a
\* depends on nothing, made without stop_on_error.
InitResults ==
  /\ project \in {p \in Projects : p[Rule("m2", "a")] = {}}
  /\ stop_on_error = FALSE
  /\ rule_nodes = {}
  /\ graph_edges = {}
  /\ last_call = NoCall
  /\ IdleDeferred
  /\ IdleGather
  /\ IdleRun
  /\ IdleCaller
  /\ IdleTasks

\* BuildContext.get_rule_results(rule) with a rule path: the path is
\* resolved, and a path that names no rule ends in AttributeError on
\* None.path.
GetRuleResults(ref) ==
  /\ \E q \in {resolve_rule(ref, "")} :
       IF q.err # "none" THEN result' = [NoResult EXCEPT !.err = q.err]
       ELSE IF q.rule = None THEN result' = [NoResult EXCEPT !.err = "AttributeError"]
       ELSE \E r \in {rule_results(rule_contexts, q.rule)} :
              result' = [rule |-> q.rule, status |-> r.status, returned |-> r.files,
                         files |-> r.files, same_list |-> r.same_list,
                         err |-> "none"]
  /\ UNCHANGED <<graphVars, deferredVars, gatherVars, taskVars, runVars, caller, threads>>

\* The caller appends a path to the list get_rule_results gave it.
AppendToResult ==
  /\ result.rule # None
  /\ result.files = result.returned
  /\ result' = [result EXCEPT !.files = Append(@, "mine")]
  /\ rule_contexts' =
       IF result.same_list
         THEN [rule_contexts EXCEPT
                 ![result.rule].all_output_files = Append(@, "mine")]
         ELSE rule_contexts
  /\ UNCHANGED <<graphVars, deferredVars, gatherVars, taskVars, caller, threads,
                 stop_on_error, behaviour, run, run_targets, rule_sequence,
                 kick_left, remaining_rules, in_flight_rules, any_failed,
                 main_deferred, history>>

NextResults ==
  \/ \E t \in TargetLists, ord \in Orders : ExecuteAsync(t, ord)
  \/ KickoffPump
  \/ \E rule \in Rules, ok \in BOOLEAN : RuleCompletes(rule, ok)
  \/ \E ref \in TargetRefs : GetRuleResults(ref)
  \/ AppendToResult

SpecResults == InitResults /\ [][NextResults]_vars

\* ------------------------------------- several builds in one BuildContext
\* Further builds are made in the projects in which m2:a depends on
\* nothing, without stop_on_error.
InitAgain == InitResults

\* No build is under way: execute_async has returned or raised and no rule
\* is running.
Quiescent ==
  /\ run # "kickoff"
  /\ \A r \in DOMAIN rule_contexts : rule_contexts[r].status # RUNNING

\* An execute_async call (by itself or from execute_sync) on a BuildContext
\* that may have built before: rule_graph and rule_contexts are those of the
\* BuildContext, the closure variables are new.
ExecuteInContext(targets, ord) ==
  /\ caller.calls < MaxCalls
  /\ Quiescent
  /\ StartRun(targets, ord)
  /\ caller' = [caller EXCEPT !.calls = @ + 1, !.contexts = rule_contexts,
                              !.refused = history.refused]
  /\ UNCHANGED <<result, threads, taskVars>>

NextAgain ==
  \/ \E t \in TargetLists, ord \in Orders : ExecuteInContext(t, ord)
  \/ KickoffPump
  \/ \E rule \in Rules, ok \in BOOLEAN : RuleCompletes(rule, ok)

SpecAgain == InitAgain /\ [][NextAgain]_vars

\* --------------------------------- the pump with the multi-process executor
\* The main thread runs execute_async and its kick-off loop; the callbacks
\* of Pool.apply_async, and with them _thunk_callback, the listeners of the
\* rule's Deferred and the _pump they call, run on the result thread of the
\* pool.  No lock is taken anywhere, so the threads interleave between the
\* statements of _pump: one step reads the state down to the choice of
\* next_rule, a second one pops the queue and issues the rule.
Threads == {"main", "pool"}

InPump(t) == \E x \in threads : x.thread = t

\* _pump down to the point where next_rule is known not to be blocked:
\* next is None when the pump has returned.
pump_peek(st, previous_succeeded) ==
  IF st.err # "none" THEN [st |-> st, next |-> None]
  ELSE IF is_done(st.main)
    THEN [st |-> [st EXCEPT !.history.reported = @ \/ ~previous_succeeded],
          next |-> None]
  ELSE The({
    IF Len(st1.remaining) > 0
      THEN IF Blocked(st1, Head(st1.remaining))
             THEN [st |-> st1, next |-> None]
             ELSE [st |-> st1, next |-> Head(st1.remaining)]
      ELSE [st |-> Done(st1), next |-> None]
    : st1 \in {[st EXCEPT !.any_failed = @ \/ ~previous_succeeded,
                          !.history.reported = @ \/ ~previous_succeeded,
                          !.remaining = IF ~previous_succeeded /\ stop_on_error
                                          THEN <<>> ELSE @]}})

\* The rest of _pump: remaining_rules.popleft(), which raises IndexError on
\* an empty deque, and _issue_rule(next_rule).
pump_issue(st, next_rule, beh) ==
  IF Len(st.remaining) = 0 THEN [st EXCEPT !.err = "IndexError"]
  ELSE issue_rule([st EXCEPT !.remaining = Tail(@)], next_rule, beh)

InitThreads ==
  /\ project \in {p \in Projects : p[Rule("m2", "a")] = {}}
  /\ stop_on_error = FALSE
  /\ rule_nodes = {}
  /\ graph_edges = {}
  /\ last_call = NoCall
  /\ IdleDeferred
  /\ IdleGather
  /\ IdleRun
  /\ caller = [NoCaller EXCEPT !.executor = "multi_process"]
  /\ result = NoResult
  /\ threads = {}
  /\ IdleTasks

\* The main thread enters a _pump() of the kick-off loop.
KickoffPeek ==
  /\ run = "kickoff"
  /\ kick_left > 0
  /\ ~InPump("main")
  /\ \E p \in {pump_peek(RunState, TRUE)} :
       /\ SetRunState(p.st)
       /\ IF p.next # None
            THEN /\ threads' = threads \cup {[thread |-> "main", next_rule |-> p.next]}
                 /\ UNCHANGED <<kick_left, run>>
            ELSE /\ threads' = threads
                 /\ kick_left' = kick_left - 1
                 /\ run' = IF p.st.err # "none" THEN p.st.err
                           ELSE IF kick_left = 1 THEN "returned" ELSE "kickoff"
  /\ UNCHANGED <<graphVars, deferredVars, gatherVars, taskVars, caller, result,
                 stop_on_error, behaviour, run_targets, rule_sequence>>

\* The main thread ends that _pump(): it pops the queue and issues the rule.
KickoffIssue ==
  /\ run = "kickoff"
  /\ \E x \in threads :
       /\ x.thread = "main"
       /\ \E st \in {pump_issue(RunState, x.next_rule, behaviour)} :
            /\ SetRunState(st)
            /\ threads' = threads \ {x}
            /\ kick_left' = kick_left - 1
            /\ run' = IF st.err # "none" THEN st.err
                      ELSE IF kick_left = 1 THEN "returned" ELSE "kickoff"
  /\ UNCHANGED <<graphVars, deferredVars, gatherVars, taskVars, caller, result,
                 stop_on_error, behaviour, run_targets, rule_sequence>>

\* The task of a running rule ends: on the result thread of the pool
\* _thunk_callback resolves the task's Deferred, the rule's context calls
\* _succeed() or _fail(), and the listener of the rule's Deferred removes
\* the rule from in_flight_rules and enters _pump.
TaskCompletes(rule, ok) ==
  /\ run \in {"kickoff", "returned"}
  /\ ~InPump("pool")
  /\ rule \in DOMAIN rule_contexts
  /\ rule_contexts[rule].status = RUNNING
  /\ \E st0 \in {[RunState EXCEPT
                     !.ctxs[rule] = IF ok THEN succeed(@) ELSE fail(@),
                     !.in_flight = Remove(@, rule)]} :
     \E p \in {pump_peek(st0, ok)} :
       /\ SetRunState(p.st)
       /\ threads' = IF p.next # None
                       THEN threads \cup {[thread |-> "pool", next_rule |-> p.next]}
                       ELSE threads
       /\ run' = IF p.st.err # "none" THEN p.st.err ELSE run
  /\ UNCHANGED <<graphVars, deferredVars, gatherVars, taskVars, caller, result,
                 stop_on_error, behaviour, run_targets, rule_sequence, kick_left>>

\* The result thread ends its _pump().
PoolIssue ==
  /\ run \in {"kickoff", "returned"}
  /\ \E x \in threads :
       /\ x.thread = "pool"
       /\ \E st \in {pump_issue(RunState, x.next_rule, behaviour)} :
            /\ SetRunState(st)
            /\ threads' = threads \ {x}
            /\ run' = IF st.err # "none" THEN st.err ELSE run
  /\ UNCHANGED <<graphVars, deferredVars, gatherVars, taskVars, caller, result,
                 stop_on_error, behaviour, run_targets, rule_sequence, kick_left>>

NextThreads ==
  \/ \E t \in TargetLists, ord \in Orders : ExecuteAsync(t, ord)
  \/ KickoffPeek
  \/ KickoffIssue
  \/ \E rule \in Rules, ok \in BOOLEAN : TaskCompletes(rule, ok)
  \/ PoolIssue

SpecThreads == InitThreads /\ [][NextThreads]_vars

\* Rules adopted by modules.
SpecModule == InitModule /\ [][NextModule]_vars

\* Rules resolved through a project and its module resolver.
SpecResolve == InitResolve /\ [][NextResolve]_vars

\* Rules handed to modules by add_rule and add_rules only.
SpecAddRules == InitModule /\ [][NextAddRules]_vars

\* A rule whose completion is chained on Deferreds.
SpecChain == InitChain /\ [][NextChain]_vars

\* A task executor used from one thread, with its pool.
SpecExecutor == InitExecutor /\ [][NextExecutor]_vars

\* ------------------------------------------------ claims on execute_async
Started == {history.started[i] : i \in DOMAIN history.started}

\* C1: a rule is started only after every rule it transitively depends on
\* has reached a terminal status (SUCCEEDED or FAILED).
C1_StartsAfterDependencies ==
  /\ history.early = {}
  /\ \A r \in DOMAIN rule_contexts : \A q \in Rules :
       (q # r /\ DependsOn(r, q)) =>
         /\ q \in DOMAIN rule_contexts
         /\ Terminal(rule_contexts[q].status)

\* A rule with a dependency is running, started after its dependency ran
\* for a while and ended.
C1_Witness ==
  \E i, j \in DOMAIN history.started :
    /\ i < j
    /\ history.started[i] \in DirectDeps(history.started[j])
    /\ rule_contexts[history.started[j]].status = RUNNING
    /\ history.started[j] \in Range(in_flight_rules)
    /\ kick_left = 0

\* C2: the run Deferred is resolved only when no rule is queued and no
\* started rule is still in flight.
C2_ResolvedWhenDrained ==
  is_done(main_deferred) =>
    /\ remaining_rules = <<>>
    /\ in_flight_rules = <<>>
    /\ \A r \in DOMAIN rule_contexts : Terminal(rule_contexts[r].status)

\* C3: a resolved run Deferred reports success exactly when no rule started
\* in the run is FAILED.
C3_SuccessIffNoFailure ==
  is_done(main_deferred) =>
    (~main_deferred.failed <=>
       \A r \in DOMAIN rule_contexts : rule_contexts[r].status # FAILED)

C6_StopOnError ==
  (stop_on_error /\ history.reported) =>
    /\ history.late = {}
    /\ \A r \in Range(rule_sequence) \ Started :
         r \notin DOMAIN rule_contexts /\ get_rule_results(rule_contexts, r) = WAITING
    /\ is_done(main_deferred) /\ main_deferred.failed

\* ------------------------------------------------- claims on the graph
Returned == last_call.op = "calc" /\ last_call.err = "none"

\* Every requested path, and every reference of a rule reachable from the
\* requested paths, names an existing rule.
AllResolve(targets) ==
  /\ \A i \in DOMAIN targets : resolve_rule(targets[i], "").rule \in Rules
  /\ \A r \in Closure(targets) : DanglingRef \notin project[r]

\* The rules reachable from the requested paths contain a dependency cycle.
CycleReachable(targets) ==
  \E r \in Closure(targets) : DependsOn(r, r)

\* C7: for an acyclic rule graph, a sequence returned by
\* calculate_rule_sequence places every rule after all the rules of the
\* sequence it transitively depends on.
C7_DependenciesFirst ==
  (Returned /\ is_directed_acyclic_graph(DeclaredEdges)) =>
    \A i, j \in DOMAIN last_call.seq :
      DependsOn(last_call.seq[i], last_call.seq[j]) => j < i

\* C8: a sequence returned by calculate_rule_sequence holds exactly the
\* targets and the rules they transitively depend on, each exactly once.
C8_ExactlyClosureOnce ==
  Returned =>
    /\ {last_call.seq[i] : i \in DOMAIN last_call.seq} = Closure(last_call.targets)
    /\ \A i, j \in DOMAIN last_call.seq :
         last_call.seq[i] = last_call.seq[j] => i = j

\* C9: when the rules reachable from the requested paths (all of which
\* resolve) contain a dependency cycle, add_rules_from_module and
\* calculate_rule_sequence fail with ValueError and return no sequence.
C9_CycleRaisesValueError ==
  (last_call.op # "none" /\ AllResolve(last_call.targets)
     /\ CycleReachable(last_call.targets))
    => last_call.err = "ValueError"

\* C10: a callback() or errback() made on a Deferred that is already done
\* raises AssertionError, leaves the Deferred (done/failed state, stored
\* arguments) as it was and invokes no listener.
C10_SingleAssignment ==
  (last_op.op \in {"callback", "errback"} /\ last_op.before.is_done) =>
    /\ last_op.raised = "AssertionError"
    /\ deferred = last_op.before
    /\ calls = last_op.calls_before

\* errback() was called on a Deferred already resolved by callback(), with
\* other arguments, after listeners had run.
C10_Witness ==
  /\ last_op.op = "errback"
  /\ last_op.before.is_done /\ ~last_op.before.failed
  /\ last_op.args # last_op.before.args
  /\ Len(calls) > 0

\* ---------------------------------------------- claims on the listeners
\* The registration method whose listeners the resolution of d invokes.
MatchingOp(d) == IF d.failed THEN "add_errback_fn" ELSE "add_callback_fn"

\* The registrations the resolution of the Deferred has to serve.
IsMatching(r) == r.op = MatchingOp(deferred)

FnsCalled == [i \in DOMAIN calls |-> calls[i][1]]

FnsOf(rs) == [i \in DOMAIN rs |-> rs[i].fn]

\* C11: every registration is served exactly once, with the resolution
\* arguments, when the Deferred resolves or has resolved the matching way,
\* and never otherwise; a function registered on a Deferred already resolved
\* the matching way is invoked before the registration returns.
C11_OneCallPerRegistration ==
  /\ ~deferred.is_done => calls = <<>>
  /\ deferred.is_done =>
       /\ \A fn \in Listeners \cup {"g"} :
            Cardinality({i \in DOMAIN calls : calls[i][1] = fn})
              = Cardinality({i \in DOMAIN registered :
                               registered[i].fn = fn /\ IsMatching(registered[i])})
       /\ \A i \in DOMAIN calls : calls[i][2] = deferred.args
  /\ (last_op.op = MatchingOp(last_op.before) /\ last_op.before.is_done) =>
       /\ Len(calls) > Len(last_op.calls_before)
       /\ calls[Len(last_op.calls_before) + 1]
            = <<last_op.args[1], last_op.before.args>>

\* An errback was served to listeners registered before and after it, while
\* callback listeners of both moments were dropped.
C11_Witness ==
  /\ deferred.is_done /\ deferred.failed
  /\ \E i, j \in DOMAIN registered :
       /\ registered[i].op = "add_errback_fn" /\ ~registered[i].done
       /\ registered[j].op = "add_errback_fn" /\ registered[j].done
  /\ \E i, j \in DOMAIN registered :
       /\ registered[i].op = "add_callback_fn" /\ ~registered[i].done
       /\ registered[j].op = "add_callback_fn" /\ registered[j].done
  /\ Len(calls) >= 2
  /\ last_op.op = "add_errback_fn"

\* C12: the listeners are invoked in the order of their registrations, so
\* every listener registered before the resolution fires before any listener
\* registered after it, one registered by a running listener included.
C12_RegistrationOrder ==
  deferred.is_done => FnsCalled = FnsOf(SelectSeq(registered, IsMatching))

\* ---------------------------------------------- claims on gather_deferreds
AllInputsDone == \A i \in DOMAIN deferreds : deferreds[i].is_done

\* The result list the inputs call for: one entry per input, at its index.
ExpectedResults ==
  [i \in DOMAIN deferreds |->
     <<~deferreds[i].failed, deferreds[i].args, NoKwargs>>]

\* C13: the Deferred of gather_deferreds is resolved exactly once, when the
\* last input is resolved and not before; with no input it is resolved to
\* success with an empty list when gather_deferreds returns.
C13_ResolvedWithLastInput ==
  gather.called =>
    /\ gather.err = "none"
    /\ is_done(gather.gather_deferred) <=> AllInputsDone
    /\ gather.resolutions = IF AllInputsDone THEN 1 ELSE 0
    /\ deferreds = <<>> =>
         /\ ~gather.gather_deferred.failed
         /\ gather.gather_deferred.args = <<Arg(<<>>)>>

\* Three inputs, one resolved before the call and two after it, the last
\* resolution completing the gather.
C13_Witness ==
  /\ gather.called
  /\ Len(deferreds) = 3
  /\ Len(gather.order) = 2
  /\ is_done(gather.gather_deferred)
  /\ gather.resolutions = 1

\* C14: the list delivered has one entry per input, at the input's index
\* whatever the order of the resolutions: (True, args, kwargs) for an input
\* resolved by callback, (False, args, kwargs) for one resolved by errback.
C14_ResultsInInputOrder ==
  is_done(gather.gather_deferred) =>
    gather.gather_deferred.args = <<Arg(ExpectedResults)>>

\* The inputs were resolved against their order in the list, one by
\* callback and one by errback, with different arguments.
C14_Witness ==
  /\ is_done(gather.gather_deferred)
  /\ Len(gather.order) >= 2
  /\ gather.order[1] > gather.order[2]
  /\ \E i, j \in DOMAIN deferreds :
       /\ deferreds[i].failed /\ ~deferreds[j].failed
       /\ deferreds[i].args # deferreds[j].args

SyncReturned == caller.sync \in {"True", "False"}

\* The build of the example: the targets are ['m1:b'], m1:b depends on
\* m1:a, which depends on nothing, and no work of a rule fails.
ExampleBuild ==
  /\ run_targets = <<RuleRef("m1", "b")>>
  /\ DirectDeps(Rule("m1", "b")) = {Rule("m1", "a")}
  /\ DirectDeps(Rule("m1", "a")) = {}
  /\ \A r \in DOMAIN behaviour : behaviour[r] # "fail"
  /\ \A r \in DOMAIN rule_contexts : rule_contexts[r].status # FAILED

\* execute_sync returns only once the run Deferred is resolved, True exactly
\* when it resolved to success and False exactly when it resolved to failure.
SyncReturnsOutcome ==
  SyncReturned =>
    /\ is_done(main_deferred)
    /\ caller.sync = "True" <=> ~main_deferred.failed

\* C16: execute_sync(targets) returns only after the run Deferred of
\* execute_async is resolved, True exactly when it resolved to success and
\* False exactly when it resolved to failure; for rules a and b (deps ':a')
\* whose work succeeds, execute_sync(['m:b']) returns True with both rules
\* SUCCEEDED and a started before b.
C16_SyncReturnsOutcome ==
  /\ SyncReturnsOutcome
  /\ (SyncReturned /\ ExampleBuild) =>
       /\ caller.sync = "True"
       /\ DOMAIN caller.statuses = {Rule("m1", "a"), Rule("m1", "b")}
       /\ \A r \in DOMAIN caller.statuses : caller.statuses[r] = SUCCEEDED
       /\ history.started = <<Rule("m1", "a"), Rule("m1", "b")>>

\* -------------------------------------------- claims on the BuildContext
\* What a target that execute_async must refuse is reported with.
ErrorOf(target) ==
  IF target.kind # "rule" THEN "NameError"
  ELSE IF target.mod \notin ModulePaths \cup {""} THEN "IOError"
  ELSE "KeyError"

\* The targets of the call that name no rule of the project.
BadTargets ==
  {run_targets[i] : i \in {j \in DOMAIN run_targets :
     \/ run_targets[j].kind # "rule"
     \/ run_targets[j].mod \notin ModulePaths
     \/ run_targets[j].name \notin ModuleRules(run_targets[j].mod)}}

\* C17: execute_async reports an invalid target by raising (NameError for a
\* target that is not a rule path, KeyError for a rule its module does not
\* have, IOError for a module that cannot be found); it then returns no
\* Deferred and has started no rule: no rule context exists and every rule
\* reports WAITING.
C17_InvalidTargetRaises ==
  (run # "idle" /\ BadTargets # {}) =>
    /\ run \in {ErrorOf(t) : t \in BadTargets}
    /\ main_deferred = NewDeferred
    /\ rule_contexts = <<>>
    /\ history.started = <<>>
    /\ in_flight_rules = <<>>
    /\ \A r \in Rules : get_rule_results(rule_contexts, r) = WAITING

\* execute_async(['m3:a']) has raised IOError for the module m3.
C17_Witness ==
  /\ run_targets = <<RuleRef("m3", "a")>>
  /\ run = "IOError"

\* A step in which get_rule_results returns.
ResultsReturned ==
  /\ result' # result
  /\ result'.rule # None
  /\ result'.files = result'.returned

\* C18: get_rule_results(rule) returns (WAITING, []) for a rule that has not
\* been started in this BuildContext, otherwise the current status of its
\* context and a copy of its output file list; the call changes no rule
\* status, no output list and creates no rule context, and what the caller
\* does to the list it got changes no output list either.
C18_ResultsAreACopy ==
  [][/\ ResultsReturned =>
          /\ result'.rule \notin DOMAIN rule_contexts =>
               /\ result'.status = WAITING
               /\ result'.returned = <<>>
          /\ result'.rule \in DOMAIN rule_contexts =>
               /\ result'.status = rule_contexts[result'.rule].status
               /\ result'.returned = rule_contexts[result'.rule].all_output_files
     /\ result' # result => rule_contexts' = rule_contexts]_vars

\* get_rule_results was asked about a running rule and the caller has
\* appended to the list it got, which the rule's context does not show.
C18_Witness ==
  /\ result.rule \in DOMAIN rule_contexts
  /\ result.status = RUNNING
  /\ result.returned = OutputFiles
  /\ result.files = Append(OutputFiles, "mine")
  /\ rule_contexts[result.rule].all_output_files = OutputFiles

\* No element occurs twice in the sequence.
NoDuplicates(seq) == \A i, j \in DOMAIN seq : seq[i] = seq[j] => i = j

\* C19: within one BuildContext, over any sequence of execute_async calls,
\* each rule path gets at most one rule context and begin() is invoked at
\* most once per rule: executing a rule that already has a context fails
\* with an assertion, does not run the rule again and does not replace its
\* context.
C19_OneContextPerRule ==
  /\ NoDuplicates(history.created)
  /\ NoDuplicates(history.begins)
  /\ Range(history.created) = DOMAIN rule_contexts
  /\ history.refused # caller.refused => run = "AssertionError"
  /\ Range(history.refused) \subseteq DOMAIN caller.contexts
  /\ \A r \in DOMAIN caller.contexts :
       /\ r \in DOMAIN rule_contexts
       /\ rule_contexts[r] = caller.contexts[r]

\* A second build in the BuildContext started a rule of its own and then
\* came to a rule the first build had executed.
C19_Witness ==
  /\ caller.calls = 2
  /\ history.refused # caller.refused
  /\ run = "AssertionError"
  /\ DOMAIN caller.contexts # {}
  /\ DOMAIN rule_contexts # DOMAIN caller.contexts

\* ------------------------------------------------ claims on the threads
\* C20: at most one pump step executes at a time: with the multi-process
\* executor a pump step started by a task-completion callback never runs
\* together with another pump step or with the kick-off loop, so
\* remaining_rules and in_flight_rules are never used by two threads at once.
C20_OnePumpAtATime == Cardinality(threads) <= 1

\* ------------------------------------------------ claims on the rule graph
\* C22: for rules p and q present in an acyclic graph, has_dependency(p, q)
\* is true if and only if q = p or p transitively depends on q through the
\* rule references of srcs and deps (file paths create no dependency); so it
\* is false for the reverse direction of a dependency and for unrelated
\* rules.
C22_HasDependencyIsReachability ==
  is_directed_acyclic_graph(graph_edges) =>
    \A p, q \in rule_nodes :
      has_dependency(rule_nodes, graph_edges, p, q) <=> (q = p \/ DependsOn(p, q))

\* A target of the list names no rule, or a rule reachable from the targets
\* holds a reference that names none.
Unresolvable(targets) ==
  \/ \E i \in DOMAIN targets : resolve_rule(targets[i], "").rule = None
  \/ \E r \in Closure(targets) : \E d \in project[r] :
       is_rule_path(d) /\ resolve_rule(d, r.mod).rule = None

\* C23: calculate_rule_sequence raises KeyError whenever a target, or a rule
\* reference of a rule reachable from a target, names no existing rule; it
\* does so on every call, also after an earlier call on the same RuleGraph
\* failed, and never returns a sequence for such targets.  (Targets that
\* reach a dependency cycle are left to the ValueError of the cycle.)
C23_UnresolvableRaisesKeyError ==
  (/\ last_call.op = "calc"
   /\ Unresolvable(last_call.targets)
   /\ ~CycleReachable(last_call.targets)) =>
    /\ last_call.err = "KeyError"
    /\ last_call.seq = <<>>

\* C30: Rule.set_parent_module succeeds only the first time it is called on
\* a rule, and then sets parent_module and makes path '<module path>:<name>';
\* every later call raises ValueError and leaves parent_module and path as
\* they were.
C30_ParentModuleSetOnce ==
  \E c \in {rule_object.call} :
    c.set =>
      \E r \in {rule_object.rules[c.object]} :
        IF ~c.again
          THEN /\ c.raised = "none"
               /\ r.parent_module = c.module
               /\ r.path = c.module \o ":" \o r.name
          ELSE /\ c.raised = "ValueError"
               /\ r.parent_module = c.before.parent_module
               /\ r.path = c.before.path

\* A rule that module m1 has adopted is handed to set_parent_module again,
\* with module m2.
C30_Witness ==
  /\ rule_object.call.op = "set_parent_module"
  /\ rule_object.call.again
  /\ rule_object.call.before.parent_module = "m1"
  /\ rule_object.call.module = "m2"
  /\ rule_object.rules[rule_object.call.object].path = "m1:a"

\* The task the latest run_task_async call was given.
LastTask == task_executor.tasks[task_executor.last.tasks_before + 1]

\* C25: with either executor, once close() has been called (graceful or
\* not), run_task_async raises RuntimeError, runs no task and returns no
\* Deferred; a second close() raises RuntimeError; the executor stays closed.
C25_ClosedExecutorRefuses ==
  \E e \in {task_executor} :
    e.last.after_close =>
      /\ e.closed
      /\ e.last.op \in {"run_task_async", "close"} =>
           /\ e.last.done
           /\ e.last.raised = "RuntimeError"
           /\ e.last.task = 0
           /\ Len(e.tasks) = e.last.tasks_before

\* A pool that was closed with terminate() while a task was outstanding is
\* asked to run another task.
C25_Witness ==
  /\ task_executor.kind = "multi_process"
  /\ task_executor.last.op = "run_task_async"
  /\ task_executor.last.after_close
  /\ task_executor.last.raised = "RuntimeError"
  /\ \E i \in DOMAIN task_executor.tasks : task_executor.tasks[i].state = "dropped"

\* C28: InProcessTaskExecutor.run_task_async runs the task before it
\* returns and returns a Deferred that is already resolved: callback with
\* the task's return value, or errback carrying the Exception the task
\* raised, which does not propagate out of run_task_async.
C28_InProcessRunsInline ==
  \E e \in {task_executor} :
    (/\ e.kind = "in_process"
     /\ e.last.op = "run_task_async"
     /\ ~e.last.after_close
     /\ LastTask.outcome # "BaseException") =>
      /\ e.last.raised = "none"
      /\ e.last.task = e.last.tasks_before + 1
      /\ LastTask.state = "inline"
      /\ is_done(LastTask.deferred)
      /\ IF LastTask.outcome = "returns"
           THEN /\ ~LastTask.deferred.failed
                /\ LastTask.deferred.args = <<Arg("result")>>
           ELSE /\ LastTask.deferred.failed
                /\ Positional(LastTask.deferred.args) = <<>>
                /\ dict_get(Keywords(LastTask.deferred.args), "exception") = Exc("e")

\* The second task of an in-process executor raises an Exception.
C28_Witness ==
  /\ task_executor.kind = "in_process"
  /\ task_executor.last.op = "run_task_async"
  /\ task_executor.last.task = 2
  /\ LastTask.outcome = "Exception"
  /\ LastTask.deferred.failed

\* The tasks handed to the pool, and those whose completion callback has
\* counted them.
Submitted(e) == {i \in DOMAIN e.tasks : e.tasks[i].state # "new"}

Completed(e) == {i \in DOMAIN e.tasks : e.tasks[i].called}

\* C29: whenever neither a method of the pooled executor nor a completion
\* callback is under way, the running count is the number of submissions
\* minus the number of completion callbacks, so that has_any_running() is
\* true exactly when a submitted task has not completed.
C29_RunningCountIsOutstanding ==
  \E e \in {task_executor} :
    (/\ e.kind = "multi_process"
     /\ ~e.close_called
     /\ e.main.op = "idle"
     /\ e.handler.task = 0) =>
      /\ e.running_count = Cardinality(Submitted(e)) - Cardinality(Completed(e))
      /\ has_any_running(e) <=> Submitted(e) \ Completed(e) # {}

\* C26: wait(deferreds) of the pooled executor returns only when every
\* Deferred it was given is resolved, whether the executor made it or not
\* and whether one Deferred or a list was given; a wait on Deferreds that
\* are all resolved already never comes to a statement that blocks.
C26_WaitReturnsWhenResolved ==
  [][(task_executor.kind = "multi_process" /\ task_executor.main.op = "wait") =>
       /\ (task_executor'.main.op = "idle" /\ task_executor'.last.raised = "none") =>
            \A i \in DOMAIN task_executor.main.list :
              WaitedDone(task_executor', deferred', task_executor.main.list[i])
       /\ (task_executor'.main.op = "wait" /\ task_executor.main.resolved_before) =>
            /\ task_executor'.main.step \in {"is_done", "spin"}
            /\ task_executor'.main.spin = <<>>]_vars

\* A wait on a Deferred of the executor and a Deferred of another owner,
\* neither resolved when the wait began, has come through both loops and
\* is at its return.
C26_Witness ==
  /\ task_executor.kind = "multi_process"
  /\ task_executor.main.op = "wait"
  /\ task_executor.main.list = <<1, 0>>
  /\ ~task_executor.main.resolved_before
  /\ task_executor.main.step = "spin"
  /\ task_executor.main.spin = <<0>>
  /\ task_executor.main.i = 2
  /\ ~task_executor.close_called

\* C27: close(graceful=True) of the pooled executor returns only after
\* every task submitted before it has finished and its Deferred is
\* resolved; once close() has returned, graceful or not, has_any_running()
\* is false.
C27_GracefulCloseDrains ==
  \E e \in {task_executor} :
    (e.kind = "multi_process" /\ e.close_called /\ e.main.op # "close") =>
      /\ ~has_any_running(e)
      /\ (e.last.op = "close" /\ e.last.raised = "none" /\ e.last.graceful) =>
           \A i \in DOMAIN e.tasks : /\ e.tasks[i].state = "handled"
                                      /\ is_done(e.tasks[i].deferred)

\* A graceful close called while both tasks were outstanding has returned.
C27_Witness ==
  /\ task_executor.kind = "multi_process"
  /\ task_executor.last.op = "close"
  /\ task_executor.last.done
  /\ task_executor.last.raised = "none"
  /\ task_executor.last.graceful
  /\ ~task_executor.last.resolved_before
  /\ Len(task_executor.tasks) = MaxTasks

\* The error a failed Deferred carries: the Exception passed first to
\* errback, or else what was passed as exception=...; None when neither.
InputError(d) ==
  IF Len(Positional(d.args)) > 0 /\ IsException(Positional(d.args)[1])
    THEN Positional(d.args)[1]
    ELSE dict_get(Keywords(d.args), "exception")

\* The error of the first input, in input order, that failed with one.
FirstError(ds) ==
  LET carriers == {i \in DOMAIN ds : ds[i].failed /\ Truthy(InputError(ds[i]))}
  IN IF carriers = {} THEN Arg("None")
     ELSE InputError(ds[CHOOSE i \in carriers : \A j \in carriers : i <= j])

\* C24: a rule chained on Deferreds with _chain is resolved only once every
\* one of them is; it is SUCCEEDED when all succeeded and FAILED when any
\* failed, and then its exception is the error of the first failed input, in
\* input order, that carries one (passed positionally or as exception=...),
\* or None when no failed input carries one.
C24_ChainFollowsInputs ==
  chain_ctx.chained =>
    IF \E i \in DOMAIN deferreds : ~is_done(deferreds[i])
      THEN /\ ~is_done(chain_ctx.deferred)
           /\ chain_ctx.status = RUNNING
      ELSE /\ is_done(chain_ctx.deferred)
           /\ IF \A i \in DOMAIN deferreds : ~deferreds[i].failed
                THEN /\ chain_ctx.status = SUCCEEDED
                     /\ ~chain_ctx.deferred.failed
                ELSE /\ chain_ctx.status = FAILED
                     /\ chain_ctx.deferred.failed
                     /\ chain_ctx.exception = FirstError(deferreds)

\* Three inputs, resolved last to first: the first fails without an error,
\* the second with exception=e2, the third with the Exception e3 passed
\* positionally; the rule fails with e2.
C24_Witness ==
  /\ chain_ctx.chained
  /\ Len(deferreds) = 3
  /\ gather.order = <<3, 2, 1>>
  /\ deferreds[1].failed /\ deferreds[1].args = <<>>
  /\ deferreds[2].args = <<Kw("exception", Exc(ExcName(2)))>>
  /\ deferreds[3].args = <<Exc(ExcName(3))>>
  /\ chain_ctx.status = FAILED
  /\ chain_ctx.exception = Exc(ExcName(2))

\* ------------------------------------------- a build on a pool of workers
\* Every rule of the project, as the targets of one build.
PoolTargets == <<RuleRef("m1", "a"), RuleRef("m1", "b"), RuleRef("m2", "a")>>

RECURSIVE submit_tasks(_, _, _)
\* RuleContext._run_task_async for the rules begun by a pump, in order:
\* run_task_async(task) of the pool, taken as one step.
submit_tasks(e, rules, outcome) ==
  IF rules = <<>> THEN e
  ELSE submit_tasks(
         [e EXCEPT !.running_count = @ + 1,
                   !.waiting_deferreds = @ \cup {Len(e.tasks) + 1},
                   !.tasks = Append(@, [NewTask(outcome) EXCEPT
                                          !.state = "queued",
                                          !.rule = Head(rules)])],
         Tail(rules), outcome)

\* The rules a pump step has begun.
Begun(st) == SelectSeq(st.in_flight, LAMBDA r : r \notin Range(in_flight_rules))

\* The rules are independent of each other and the work of each is a task
\* for the pool, which has two workers.
InitPool ==
  /\ project = [r \in Rules |-> IF r = Rule("m1", "b") THEN {FileRef} ELSE {}]
  /\ rule_nodes = {}
  /\ graph_edges = {}
  /\ last_call = NoCall
  /\ stop_on_error = FALSE
  /\ IdleDeferred
  /\ IdleGather
  /\ IdleRun
  /\ caller = [NoCaller EXCEPT !.executor = "multi_process"]
  /\ result = NoResult
  /\ threads = {}
  /\ task_executor = NewExecutor("multi_process", 2)
  /\ rule_object = NewRuleObjects
  /\ chain_ctx = NoChain
  /\ project_modules = NoProject

\* build_ctx.execute_async(targets): every begin() will hand a task to the
\* pool and return with the rule RUNNING.
PoolExecuteAsync(targets, ord) ==
  /\ run = "idle"
  /\ StartRun(targets, ord)
  /\ \A r \in DOMAIN behaviour' : behaviour'[r] = "async"
  /\ UNCHANGED <<callerVars, taskVars>>

\* One _pump() of the kick-off loop; the rule it begins submits its task.
PoolKickoffPump(outcome) ==
  /\ run = "kickoff"
  /\ kick_left > 0
  /\ \E st \in {pump(RunState, TRUE, behaviour)} :
       /\ SetRunState(st)
       /\ kick_left' = kick_left - 1
       /\ run' = IF st.err # "none" THEN st.err
                 ELSE IF kick_left = 1 THEN "returned" ELSE "kickoff"
       /\ task_executor' = submit_tasks(task_executor, Begun(st), outcome)
  /\ UNCHANGED <<graphVars, deferredVars, gatherVars, callerVars, stop_on_error,
                 behaviour, run_targets, rule_sequence, rule_object, chain_ctx,
                 project_modules>>

\* The result handler runs _thunk_callback for a finished task: the count
\* goes down, the task's Deferred is resolved, its listener completes the
\* rule, and the rule's listeners pump; a rule begun there submits its task.
PoolTaskCompletes(i, outcome) ==
  /\ PoolExecutor
  /\ run \in {"kickoff", "returned"}
  /\ task_executor.tasks[i].state = "finished"
  /\ \E rule \in {task_executor.tasks[i].rule} :
     \E ok \in {task_executor.tasks[i].outcome = "returns"} :
       /\ rule \in DOMAIN rule_contexts
       /\ rule_contexts[rule].status = RUNNING
       /\ \E o \in {IF ok THEN Deferred_callback(rule_contexts[rule].deferred, <<>>)
                           ELSE Deferred_errback(rule_contexts[rule].deferred, <<>>)} :
          \E st \in {Fire([RunState EXCEPT
                             !.ctxs[rule] = IF ok THEN succeed(@) ELSE fail(@)],
                          o.fired, rule, behaviour)} :
            /\ SetRunState(st)
            /\ run' = IF st.err # "none" THEN st.err ELSE run
            /\ task_executor' =
                 submit_tasks(
                   [task_executor EXCEPT
                      !.running_count = @ - 1,
                      !.waiting_deferreds = @ \ {i},
                      !.tasks[i] = [@ EXCEPT
                                      !.deferred = thunk_resolve(task_executor.tasks[i]),
                                      !.called = TRUE, !.ready = TRUE,
                                      !.state = "handled"]],
                   Begun(st), outcome)
  /\ UNCHANGED <<graphVars, deferredVars, gatherVars, callerVars, stop_on_error,
                 behaviour, run_targets, rule_sequence, kick_left, rule_object,
                 chain_ctx, project_modules>>

NextPool ==
  \/ \E ord \in Orders : PoolExecuteAsync(PoolTargets, ord)
  \/ \E outcome \in PoolOutcomes : PoolKickoffPump(outcome)
  \/ \E i \in DOMAIN task_executor.tasks : WorkerTakes(i)
  \/ \E i \in DOMAIN task_executor.tasks : WorkerFinishes(i)
  \/ \E i \in DOMAIN task_executor.tasks : \E outcome \in PoolOutcomes :
       PoolTaskCompletes(i, outcome)

\* A build of independent rules on a pool of two workers.
SpecPool == InitPool /\ [][NextPool]_vars

\* The rules whose context has status RUNNING.
RunningRules == {r \in DOMAIN rule_contexts : rule_contexts[r].status = RUNNING}

\* C21: in a build of mutually independent rules on a pool of two workers,
\* at no time do more rules have status RUNNING than the pool has workers.
C21_RunningWithinWorkerCount ==
  Cardinality(RunningRules) <= task_executor.worker_count

\* What the pool does bound: the tasks inside a worker process.
WorkingWithinWorkerCount ==
  Cardinality(Working(task_executor)) <= task_executor.worker_count



\* Whether the latest add_rule or add_rules call was given a rule whose name
\* a rule of the module already had, or two rules of one name.
DuplicateGiven ==
  \E c \in {rule_object.call} :
    \/ \E i \in DOMAIN c.list : c.table[c.module][RuleName(c.list[i])] # "None"
    \/ \E i, j \in DOMAIN c.list : i # j /\ RuleName(c.list[i]) = RuleName(c.list[j])

\* C31: Module.add_rule and add_rules raise KeyError when the name of a rule
\* given is the name of a rule already in the module or of another rule of
\* the same call, and then add none of the rules given: the module's rule
\* table is as it was before the call.
C31_DuplicateNameAddsNothing ==
  \E c \in {rule_object.call} :
    (c.op \in {"add_rule", "add_rules"} /\ DuplicateGiven) =>
      /\ c.raised = "KeyError"
      /\ rule_object.modules[c.module] = c.table[c.module]

\* C32: after any add_rule and add_rules calls, failed ones included, no Rule
\* object is in the rule table of two modules, and every rule in a module's
\* table has that module as its parent_module.
C32_OneModulePerRule ==
  \A m \in ModulePaths : \A n \in {"a", "b"} :
    \E o \in {rule_object.modules[m][n]} :
      o # "None" =>
        /\ rule_object.rules[o].parent_module = m
        /\ \A m2 \in ModulePaths \ {m} : \A n2 \in {"a", "b"} :
             rule_object.modules[m2][n2] # o


\* C33: Project.resolve_rule loads a module through the resolver at most once
\* per absolute module path: once load_module has returned a Module for a
\* full path, a later resolve_rule that comes to the same full path succeeds
\* against that Module, calls load_module no more and leaves the project's
\* module table alone; and a resolve_rule that finds no module (IOError)
\* registers none.
C33_ModuleLoadedOncePerPath ==
  \E c \in {project_modules.call} :
    /\ (c.op = "resolve_rule" /\ c.full_path # "None"
        /\ c.loaded[c.full_path] # "None") =>
         /\ c.raised = "none"
         /\ c.rule \in {<<c.loaded[c.full_path], "r">>, <<"None">>}
         /\ project_modules.loads = c.loads
         /\ project_modules.modules = c.modules
    /\ c.raised = "IOError" => project_modules.modules = c.modules


\* C36: execute_async with an empty target list returns a run Deferred that
\* is resolved to success, and execute_sync([]) returns True.
C36_EmptyRunSucceeds ==
  (run_targets = <<>> /\ run = "returned") =>
    /\ is_done(main_deferred)
    /\ ~main_deferred.failed
    /\ caller.sync \in {"waiting", "True"}


\* execute_async has returned, no rule is queued and none is in flight.
RunEnded ==
  /\ run = "returned"
  /\ remaining_rules = <<>>
  /\ in_flight_rules = <<>>

\* The rule's own begin() was invoked and the rule failed.
FailedItself(rule) ==
  /\ rule \in history.begun
  /\ get_rule_results(rule_contexts, rule) = FAILED

\* The run ended with every rule of the sequence that depends, through any
\* number of declared dependencies, on a rule that failed itself FAILED
\* with no begin() invoked, and the run Deferred resolved by errback.
FailureCascaded ==
  \A r \in Range(rule_sequence) :
    (\E A \in Rules : DependsOn(r, A) /\ FailedItself(A)) =>
      /\ get_rule_results(rule_contexts, r) = FAILED
      /\ r \notin history.begun
      /\ is_done(main_deferred)
      /\ main_deferred.failed

\* C34 as stated: in a chain in which each rule declares only the rule
\* before it, when the first rule fails every later rule ends FAILED with no
\* begin() invoked and the run resolves to failure.
C34_AsStated == RunEnded => FailureCascaded

\* C34: the same in a run with stop_on_error off; no rule looks further
\* than the contexts of the rules it declares.
C34_CascadeIsTransitive == (RunEnded /\ ~stop_on_error) => FailureCascaded

\* m1:a failed, m1:b depends on m1:a alone and m2:a on m1:b alone; the run
\* of all three ended with m2:a FAILED.
C34_Witness ==
  /\ RunEnded
  /\ ~stop_on_error
  /\ DirectDeps(Rule("m1", "a")) = {}
  /\ DirectDeps(Rule("m1", "b")) = {Rule("m1", "a")}
  /\ DirectDeps(Rule("m2", "a")) = {Rule("m1", "b")}
  /\ FailedItself(Rule("m1", "a"))
  /\ rule_sequence = <<Rule("m1", "a"), Rule("m1", "b"), Rule("m2", "a")>>
  /\ get_rule_results(rule_contexts, Rule("m2", "a")) = FAILED
  /\ history.begins = <<Rule("m1", "a")>>


\* The statuses a context may have after a step in which it had status s
\* before (WAITING for a context the step created).
StatusAfter(s) ==
  IF s = WAITING THEN {WAITING, RUNNING, SUCCEEDED, FAILED}
  ELSE IF s = RUNNING THEN {RUNNING, SUCCEEDED, FAILED}
  ELSE {s}

\* C35: the status of a rule context only moves WAITING -> RUNNING ->
\* SUCCEEDED or FAILED, or WAITING -> FAILED for a cascade, and never leaves
\* a terminal status: a context is RUNNING or further once its begin() was
\* invoked, SUCCEEDED or RUNNING only if it was; and after every step its
\* Deferred is resolved exactly if the status is terminal, by callback
\* exactly if it is SUCCEEDED.
C35_StatusMovesForward ==
  [][\A r \in DOMAIN rule_contexts' :
       \E before \in {IF r \in DOMAIN rule_contexts
                        THEN rule_contexts[r].status ELSE WAITING} :
       \E ctx \in {rule_contexts'[r]} :
         /\ DOMAIN rule_contexts \subseteq DOMAIN rule_contexts'
         /\ ctx.status \in StatusAfter(before)
         /\ r \in history'.begun => ctx.status # WAITING
         /\ ctx.status \in {RUNNING, SUCCEEDED} => r \in history'.begun
         /\ is_done(ctx.deferred) <=> Terminal(ctx.status)
         /\ ctx.deferred.failed <=> ctx.status = FAILED]_vars

\* One rule succeeded, one failed in its own begin() and one was failed by
\* the cascade.
C35_Witness ==
  \E a, b, c \in DOMAIN rule_contexts :
    /\ rule_contexts[a].status = SUCCEEDED
    /\ rule_contexts[b].status = FAILED
    /\ b \in history.begun
    /\ rule_contexts[c].status = FAILED
    /\ c \notin history.begun
    /\ is_done(rule_contexts[c].deferred)
    /\ caller.calls = 2


\* The rules of the sequence after the first n.
Suffix(n) == SubSeq(rule_sequence, n + 1, Len(rule_sequence))

\* C39: at every point of an execute_async run the rules started so far are
\* a prefix of the execution sequence, in order; the queue of rules not yet
\* started is the rest of the sequence, or empty after a stop-on-error
\* clear; every rule of the sequence is in exactly one of queued, in flight,
\* completed and dropped; and the in-flight list holds the rules launched
\* whose completion has not been delivered to the pump.
C39_QueueIsRestOfSequence ==
  /\ history.started # <<>> => run \in {"kickoff", "returned"}
  /\ \E n \in {Len(history.started)} :
      /\ n <= Len(rule_sequence)
      /\ history.started = SubSeq(rule_sequence, 1, n)
      /\ \/ remaining_rules = Suffix(n)
         \/ remaining_rules = <<>> /\ stop_on_error /\ any_failed
      /\ \A i, j \in DOMAIN rule_sequence : rule_sequence[i] = rule_sequence[j] => i = j
      /\ \A i \in 1..n : rule_sequence[i] \in DOMAIN rule_contexts
      /\ in_flight_rules =
           SelectSeq(history.started,
                     LAMBDA r : ~Terminal(get_rule_results(rule_contexts, r)))
      /\ \A i \in DOMAIN in_flight_rules :
           get_rule_results(rule_contexts, in_flight_rules[i]) = RUNNING

\* Of three rules one has completed, one is in flight and one is queued
\* behind it.
C39_Witness ==
  /\ run = "returned"
  /\ Len(rule_sequence) = 3
  /\ Len(history.started) = 2
  /\ in_flight_rules = <<rule_sequence[2]>>
  /\ remaining_rules = <<rule_sequence[3]>>
  /\ get_rule_results(rule_contexts, rule_sequence[1]) = SUCCEEDED


\* C40: in a run driven from one thread the run Deferred is resolved at most
\* once: no pump, whatever the order of the completions and however many
\* pumps find nothing to do, fails the assertion of callback() or errback()
\* on a Deferred already resolved, and once the run Deferred is resolved it
\* stays as it is and no further rule is started.  (Before the first pump
\* run is "idle"; from then on it is "kickoff" or "returned" until a pump
\* raises.)
C40_RunResolvedOnce ==
  [][/\ run \in {"kickoff", "returned"} => run' \in {"kickoff", "returned"}
     /\ is_done(main_deferred) =>
          /\ main_deferred' = main_deferred
          /\ history'.started = history.started]_vars

\* Three rules that succeed in begin(): the first pump of the kick-off loop
\* runs them all and resolves the run; the other two pumps came after.
C40_Witness ==
  /\ run = "returned"
  /\ kick_left = 0
  /\ Len(rule_sequence) = 3
  /\ \A r \in Rules : r \in DOMAIN behaviour /\ behaviour[r] = "succeed"
  /\ is_done(main_deferred)
  /\ ~main_deferred.failed


\* C37: once an operation has put a dependency cycle into a RuleGraph (the
\* operation that found it raised), no later calculate_rule_sequence call on
\* that graph returns a sequence, whatever the targets: targets off the
\* cycle and the empty list included.
C37_CycleStopsSequences ==
  [][~is_directed_acyclic_graph(graph_edges) =>
       (last_call'.op = "calc" =>
          /\ last_call'.err # "none"
          /\ last_call'.seq = <<>>)]_vars

\* calculate_rule_sequence([]) on a graph that holds a cycle: the call added
\* nothing, so the cycle was there before it.
C37_Witness ==
  /\ ~is_directed_acyclic_graph(graph_edges)
  /\ last_call.op = "calc"
  /\ last_call.targets = <<>>
  /\ last_call.err = "ValueError"


\* C38: under the pooled executor the Deferred of every task handed to
\* run_task_async is resolved once the task has finished, whatever the
\* interleaving of the calling thread, which puts the task into the waiting
\* table after apply_async, and the completion callback, which deletes it
\* from the table before it resolves the Deferred: no callback ends without
\* resolving its Deferred, and a task whose AsyncResult is ready has its
\* Deferred resolved.
C38_DeferredResolvedAfterTask ==
  task_executor.kind = "multi_process" =>
    \A i \in DOMAIN task_executor.tasks :
      \E task \in {task_executor.tasks[i]} :
        /\ task.state # "stuck"
        /\ task.ready => is_done(task.deferred)

====
